---- MODULE Spec2Model ----
(***************************************************************************)
(* MenuLens: the order ledger, the persisted snapshot and the scan flow of *)
(* the two App components of the repository, src/src/App.tsx ("full") and  *)
(* src/App.tsx ("compact"), with the OrderModal's derived values.          *)
(*                                                                         *)
(* A JavaScript Map is a sequence of [name, qty] records with distinct     *)
(* names, in insertion order.  A string that the code takes apart (a       *)
(* price) is a sequence of one-character strings; the empty sequence       *)
(* stands for both an absent and an empty price, which the code treats     *)
(* alike (both are falsy).  Money is counted in hundredths.                *)
(***************************************************************************)
EXTENDS Integers, Sequences, FiniteSets, TLC

VARIABLES
    impl,                \* which App component runs: "full" or "compact"
    pc,                  \* "boot" before the mount effects have run, then "run"
    appState,            \* useState<AppState>
    menuItems,           \* useState<MenuItem[]>
    restaurantName,      \* useState<string>
    restaurantLocation,  \* useState<string>
    order,               \* useState<Map<string, number>>
    isOrderModalOpen,    \* useState(false)
    isEditRestaurantOpen,\* useState(false)
    slot,                \* localStorage item 'menuLensState'
    parsePending,        \* parseMenuImage calls awaited by handleFileSelect
    last,                \* history: the handler that ran last
    hist,                \* history: the calls made so far (SpecLedger, SpecDetail)
    call,                \* history: the last handleUpdateOrder call (SpecLedger)
    mode,                \* OrderModal: useState<'cart' | 'waiter' | 'bill'>
    tipPercent,          \* OrderModal: useState(18)
    splitCount,          \* OrderModal: useState(1)
    customBillAmount,    \* OrderModal: useState<string>(''), a sequence of characters
    activeFilters,       \* MenuGrid: useState of the four filter toggles
    out,                 \* what the last render of the component under study showed
    pending,             \* setOrder updaters queued since the last render (SpecBatch)
    loading,             \* App: useState(false)
    recommendations,     \* App: useState<Recommendation[]>([])
    recsPending,         \* getRecommendations calls awaited
    isModalOpen,         \* App: useState(false), the dish detail modal
    isDetailLoading,     \* App: useState(false)
    currentDishDetail,   \* App: useState<DishDetail | null>(null)
    detailPending,       \* searchDishInfo calls awaited, each with its dish name
    messages,            \* WaiterChat: useState<ChatMessage[]>
    inputText,           \* WaiterChat: useState('')
    isTyping,            \* WaiterChat: useState(false)
    chatSession,         \* WaiterChat: chatSessionRef.current, 0 for null
    chatPending          \* sendMessage calls awaited, each with its session

vars == <<impl, pc, appState, menuItems, restaurantName, restaurantLocation,
          order, isOrderModalOpen, isEditRestaurantOpen, slot, parsePending,
          last, hist, call, mode, tipPercent, splitCount, customBillAmount,
          activeFilters, out, pending, loading, recommendations, recsPending,
          isModalOpen, isDetailLoading, currentDishDetail, detailPending,
          messages, inputText, isTyping, chatSession, chatPending>>

\* the state of OrderModal, of MenuGrid, and the render and updater bookkeeping
modalVars == <<mode, tipPercent, splitCount, customBillAmount>>
gridVars == <<activeFilters, out>>
recVars == <<loading, recommendations, recsPending>>
detailVars == <<isModalOpen, isDetailLoading, currentDishDetail, detailPending>>
chatVars == <<messages, inputText, isTyping, chatSession, chatPending>>

(***************************************************************************)
(* Bounds of the model.                                                    *)
(***************************************************************************)
MaxQty == 2
MaxInFlight == 2
MaxCalls == 3
MaxDelta == 2

\* OrderModal's useState initial values
DefaultTipPercent == 18
DefaultSplitCount == 1

ModalInit ==
    /\ mode = "cart"
    /\ tipPercent = DefaultTipPercent
    /\ splitCount = DefaultSplitCount
    /\ customBillAmount = <<>>

\* MenuGrid's useState initial value, and nothing rendered yet
FilterKeys == {"vegetarian", "nutAllergy", "noPork", "spicy"}
NotRendered == [kind |-> "none"]

GridInit ==
    /\ activeFilters = [k \in FilterKeys |-> FALSE]
    /\ out = NotRendered

\* the useState initial values of App's recommendation and detail state
NoDetail == [kind |-> "null"]

AsyncInit ==
    /\ loading = FALSE
    /\ recommendations = <<>>
    /\ recsPending = 0
    /\ isModalOpen = FALSE
    /\ isDetailLoading = FALSE
    /\ currentDishDetail = NoDetail
    /\ detailPending = <<>>

\* WaiterChat's useState and useRef initial values; a text is a sequence of
\* characters, a canned text a sequence of one element
Greeting == [role |-> "model", text |-> <<"greeting">>]

ChatInit ==
    /\ messages = <<Greeting>>
    /\ inputText = <<>>
    /\ isTyping = FALSE
    /\ chatSession = 0
    /\ chatPending = <<>>

Ids == {"a", "b"}
TrackedId == "a"
Impls == {"full", "compact"}
Deltas == (-MaxDelta .. MaxDelta) \ {0}

Max(x, y) == IF x >= y THEN x ELSE y

(***************************************************************************)
(* Map<string, number>                                                     *)
(***************************************************************************)
EmptyMap == <<>>

MapHas(m, k) == \E i \in 1..Len(m) : m[i].name = k

MapGet(m, k) == m[CHOOSE i \in 1..Len(m) : m[i].name = k].qty

MapSet(m, k, v) ==
    IF MapHas(m, k)
    THEN [i \in 1..Len(m) |-> IF m[i].name = k THEN [name |-> k, qty |-> v] ELSE m[i]]
    ELSE Append(m, [name |-> k, qty |-> v])

MapDelete(m, k) ==
    LET keep(e) == e.name # k IN SelectSeq(m, keep)

\* Array.from(order.entries())
MapEntries(m) == [i \in 1..Len(m) |-> <<m[i].name, m[i].qty>>]

\* new Map(entries): one set() per pair, left to right
RECURSIVE MapFromEntriesInto(_, _)
MapFromEntriesInto(m, entries) ==
    IF entries = <<>> THEN m
    ELSE MapFromEntriesInto(MapSet(m, Head(entries)[1], Head(entries)[2]), Tail(entries))

MapFromEntries(entries) == MapFromEntriesInto(EmptyMap, entries)

\* Array.from(order.values()).reduce((a, b) => a + b, 0)
RECURSIVE SumValues(_)
SumValues(m) == IF m = <<>> THEN 0 ELSE Head(m).qty + SumValues(Tail(m))

(***************************************************************************)
(* handleUpdateOrder: the updater passed to setOrder, applied to the       *)
(* ledger's current value.                                                 *)
(***************************************************************************)
\* a clamp that stores the zero instead of deleting the entry
handleUpdateOrderFull_keepsZero(prev, originalName, delta) ==
    LET currentQty == IF MapHas(prev, originalName) THEN MapGet(prev, originalName) ELSE 0
        newQty == Max(0, currentQty + delta)
    IN  MapSet(prev, originalName, newQty)

\* a handler that forgets the current quantity
handleUpdateOrderFull_ignoresCurrent(prev, originalName, delta) ==
    LET newQty == Max(0, delta)
    IN  IF newQty = 0 THEN MapDelete(prev, originalName)
        ELSE MapSet(prev, originalName, newQty)

\* src/src/App.tsx
handleUpdateOrderFull(prev, originalName, delta) ==
    LET currentQty == IF MapHas(prev, originalName) /\ MapGet(prev, originalName) # 0
                      THEN MapGet(prev, originalName) ELSE 0
        newQty == Max(0, currentQty + delta)
    IN  IF newQty = 0 THEN MapDelete(prev, originalName)
        ELSE MapSet(prev, originalName, newQty)

\* src/App.tsx
handleUpdateOrderCompact(prev, name, delta) ==
    LET currentQty == IF MapHas(prev, name) /\ MapGet(prev, name) # 0
                      THEN MapGet(prev, name) ELSE 0
        qty == currentQty + delta
    IN  IF qty <= 0 THEN MapDelete(prev, name) ELSE MapSet(prev, name, qty)

handleUpdateOrder(i, prev, name, delta) ==
    IF i = "full" THEN handleUpdateOrderFull(prev, name, delta)
    ELSE handleUpdateOrderCompact(prev, name, delta)

(***************************************************************************)
(* Prices: the first match of the pattern "digits, an optional point,      *)
(* digits" in item.price, and parseFloat of the match.                     *)
(***************************************************************************)
DigitChars == {"0", "1", "2", "3", "4", "5", "6", "7", "8", "9"}

DigitVal(c) ==
    CASE c = "0" -> 0 [] c = "1" -> 1 [] c = "2" -> 2 [] c = "3" -> 3 [] c = "4" -> 4
      [] c = "5" -> 5 [] c = "6" -> 6 [] c = "7" -> 7 [] c = "8" -> 8 [] c = "9" -> 9

\* the index after the longest run of digits of s that starts at i
RECURSIVE DigitRunEnd(_, _)
DigitRunEnd(s, i) ==
    IF i <= Len(s) /\ s[i] \in DigitChars THEN DigitRunEnd(s, i + 1) ELSE i

\* the leftmost match of the pattern in s: [found, int, frac], the digits
\* before and after the point
PriceMatch(s) ==
    IF \A i \in 1..Len(s) : s[i] \notin DigitChars
    THEN [found |-> FALSE, int |-> <<>>, frac |-> <<>>]
    ELSE LET start == CHOOSE i \in 1..Len(s) :
                         /\ s[i] \in DigitChars
                         /\ \A j \in 1..(i - 1) : s[j] \notin DigitChars
             e1 == DigitRunEnd(s, start)
             dot == e1 <= Len(s) /\ s[e1] = "."
             e2 == IF dot THEN DigitRunEnd(s, e1 + 1) ELSE e1
         IN  [found |-> TRUE,
              int |-> SubSeq(s, start, e1 - 1),
              frac |-> IF dot THEN SubSeq(s, e1 + 1, e2 - 1) ELSE <<>>]

RECURSIVE DigitsValue(_)
DigitsValue(ds) ==
    IF ds = <<>> THEN 0
    ELSE 10 * DigitsValue(SubSeq(ds, 1, Len(ds) - 1)) + DigitVal(ds[Len(ds)])

\* parseFloat(match[0]) in hundredths; the model's prices have at most two decimals
ParseFloatCents(m) ==
    LET f1 == IF Len(m.frac) >= 1 THEN DigitVal(m.frac[1]) ELSE 0
        f2 == IF Len(m.frac) >= 2 THEN DigitVal(m.frac[2]) ELSE 0
    IN  DigitsValue(m.int) * (10 * 10) + 10 * f1 + f2

\* a price read as whole units only
PriceCents_dropsFraction(price) ==
    LET match == PriceMatch(price)
    IN  IF match.found THEN DigitsValue(match.int) * (10 * 10) ELSE 0

\* const price = match ? parseFloat(match[0]) : 0
PriceCents(price) ==
    LET match == PriceMatch(price) IN IF match.found THEN ParseFloatCents(match) ELSE 0

\* menuItems.find(m => m.originalName === name): the index of the first, or 0
Find(items, name) ==
    IF \E i \in 1..Len(items) : items[i].originalName = name
    THEN CHOOSE i \in 1..Len(items) :
            /\ items[i].originalName = name
            /\ \A j \in 1..(i - 1) : items[j].originalName # name
    ELSE 0

(***************************************************************************)
(* Derived values of App and OrderModal.                                   *)
(***************************************************************************)
totalItems(m) == SumValues(m)

\* a total that charges an unresolved entry the first dish's price
RECURSIVE totalPrice_chargesOrphans(_, _)
totalPrice_chargesOrphans(m, items) ==
    IF m = <<>> THEN 0
    ELSE LET e == Head(m)
             i == Find(items, e.name)
             j == IF i = 0 /\ items # <<>> THEN 1 ELSE i
             rest == totalPrice_chargesOrphans(Tail(m), items)
         IN  IF j = 0 \/ items[j].price = <<>> THEN rest
             ELSE PriceCents(items[j].price) * e.qty + rest

\* src/src/App.tsx totalPrice, in hundredths
RECURSIVE totalPrice(_, _)
totalPrice(m, items) ==
    IF m = <<>> THEN 0
    ELSE LET e == Head(m)
             i == Find(items, e.name)
             rest == totalPrice(Tail(m), items)
         IN  IF i = 0 \/ items[i].price = <<>> THEN rest
             ELSE PriceCents(items[i].price) * e.qty + rest

\* OrderModal cartItems: the entries whose dish is found, with the dish
cartItems(m, items) ==
    LET found(e) == Find(items, e.name) # 0
        kept == SelectSeq(m, found)
    IN  [i \in 1..Len(kept) |->
            [item |-> items[Find(items, kept[i].name)], qty |-> kept[i].qty,
             name |-> kept[i].name]]

\* OrderModal cartTotal, in hundredths
RECURSIVE cartTotal(_)
cartTotal(cart) ==
    IF cart = <<>> THEN 0
    ELSE LET c == Head(cart)
             rest == cartTotal(Tail(cart))
         IN  IF c.item.price = <<>> THEN rest
             ELSE PriceCents(c.item.price) * c.qty + rest

(***************************************************************************)
(* Dishes, parse results and slot contents the model draws from.           *)
(***************************************************************************)
DishA == [originalName |-> "a", price |-> <<"$", "5">>]
DishB == [originalName |-> "b", price |-> <<>>]
DishB2 == [originalName |-> "b", price |-> <<"1", ".", "5", "0", " ", "E", "U", "R">>]

Catalogs == {<<DishA>>, <<DishA, DishB>>, <<DishB2, DishA>>}

\* what the awaited parseMenuImage call settles with
ParseOutcomes ==
    {[kind |-> "reject", items |-> <<>>, restaurantName |-> ""],
     [kind |-> "ok", items |-> <<>>, restaurantName |-> ""],
     [kind |-> "ok", items |-> <<DishA>>, restaurantName |-> ""]}
    \cup [kind : {"ok"}, items : Catalogs \ {<<DishA>>}, restaurantName : {"R"}]

NameInputs == {"", "R"}
LocationInputs == {"", "L"}

NoItems == [has |-> FALSE, val |-> <<>>]
NoOrder == [tag |-> "missing", val |-> <<>>]

\* localStorage.getItem gives null; text JSON.parse throws on; the text "null"
Absent == [kind |-> "absent", menuItems |-> NoItems, restaurantName |-> "",
           restaurantLocation |-> "", order |-> NoOrder]
Garbage == [Absent EXCEPT !.kind = "garbage"]
NullJson == [Absent EXCEPT !.kind = "null"]

\* a parsed object; order.tag: "missing" (absent or falsy), "bad" (truthy, not an
\* iterable of pairs, such as 5 or {}), "list" (an array of [name, qty] pairs)
Json(items, name, loc, ord) ==
    [kind |-> "json", menuItems |-> items, restaurantName |-> name,
     restaurantLocation |-> loc, order |-> ord]

Items(c) == [has |-> TRUE, val |-> c]
Pairs(ps) == [tag |-> "list", val |-> ps]

SlotInputs ==
    { Absent, Garbage, NullJson,
      Json(NoItems, "R", "", Pairs(<< <<"a", 1>> >>)),
      Json(Items(<<>>), "R", "L", Pairs(<<>>)),
      Json(Items(<<DishA>>), "", "", NoOrder),
      Json(Items(<<DishA>>), "R", "L", [tag |-> "bad", val |-> <<>>]),
      Json(Items(<<DishA, DishB>>), "R", "L", Pairs(<< <<"b", 1>>, <<"a", 2>> >>)),
      Json(Items(<<DishA>>), "R", "", Pairs(<< <<"a", 0>> >>)),
      Json(Items(<<DishA>>), "R", "", Pairs(<< <<"a", -1>> >>)),
      Json(Items(<<DishA>>), "R", "", Pairs(<< <<"a", 1>>, <<"b", 2>> >>)),
      Json(Items(<<DishA>>), "", "L", Pairs(<< <<"a", 1>>, <<"b", 1>>, <<"a", 2>> >>)) }

\* the component state the effects and handlers read and set
Cur == [appState |-> appState, menuItems |-> menuItems,
        restaurantName |-> restaurantName,
        restaurantLocation |-> restaurantLocation, order |-> order]

InitialState == [appState |-> "UPLOAD", menuItems |-> <<>>, restaurantName |-> "",
                 restaurantLocation |-> "", order |-> EmptyMap]

Install(st) ==
    /\ appState' = st.appState
    /\ menuItems' = st.menuItems
    /\ restaurantName' = st.restaurantName
    /\ restaurantLocation' = st.restaurantLocation
    /\ order' = st.order

(***************************************************************************)
(* Persistence effects.  LoadEffect gives the state after the setters it   *)
(* called, the slot it left, and whether the catch block ran.              *)
(***************************************************************************)
\* a load that forgets the saved location
LoadEffectFull_dropsLocation(st, s) ==
    IF s.kind = "absent" THEN [st |-> st, slot |-> s, threw |-> FALSE]
    ELSE IF s.kind \in {"garbage", "null"} THEN [st |-> st, slot |-> Absent, threw |-> TRUE]
    ELSE IF ~(s.menuItems.has /\ Len(s.menuItems.val) > 0)
         THEN [st |-> st, slot |-> s, threw |-> FALSE]
    ELSE LET st1 == [st EXCEPT !.menuItems = s.menuItems.val,
                               !.restaurantName = s.restaurantName]
         IN  IF s.order.tag = "missing"
             THEN [st |-> [st1 EXCEPT !.appState = "MENU_VIEW"], slot |-> s, threw |-> FALSE]
             ELSE IF s.order.tag = "bad"
             THEN [st |-> st1, slot |-> Absent, threw |-> TRUE]
             ELSE [st |-> [st1 EXCEPT !.order = MapFromEntries(s.order.val),
                                      !.appState = "MENU_VIEW"],
                   slot |-> s, threw |-> FALSE]

\* src/src/App.tsx, load-on-mount effect
LoadEffectFull(st, s) ==
    IF s.kind = "absent" THEN [st |-> st, slot |-> s, threw |-> FALSE]
    ELSE IF s.kind \in {"garbage", "null"} THEN [st |-> st, slot |-> Absent, threw |-> TRUE]
    ELSE IF ~(s.menuItems.has /\ Len(s.menuItems.val) > 0)
         THEN [st |-> st, slot |-> s, threw |-> FALSE]
    ELSE LET st1 == [st EXCEPT !.menuItems = s.menuItems.val,
                               !.restaurantName = s.restaurantName,
                               !.restaurantLocation = s.restaurantLocation]
         IN  IF s.order.tag = "missing"
             THEN [st |-> [st1 EXCEPT !.appState = "MENU_VIEW"], slot |-> s, threw |-> FALSE]
             ELSE IF s.order.tag = "bad"
             THEN [st |-> st1, slot |-> Absent, threw |-> TRUE]
             ELSE [st |-> [st1 EXCEPT !.order = MapFromEntries(s.order.val),
                                      !.appState = "MENU_VIEW"],
                   slot |-> s, threw |-> FALSE]

\* src/App.tsx, load-on-mount effect
LoadEffectCompact(st, s) ==
    IF s.kind = "absent" THEN [st |-> st, slot |-> s, threw |-> FALSE]
    ELSE IF s.kind \in {"garbage", "null"} THEN [st |-> st, slot |-> Absent, threw |-> TRUE]
    ELSE IF ~(s.menuItems.has /\ Len(s.menuItems.val) # 0)
         THEN [st |-> st, slot |-> s, threw |-> FALSE]
    ELSE LET st1 == [st EXCEPT !.menuItems = s.menuItems.val,
                               !.restaurantName = s.restaurantName,
                               !.restaurantLocation = s.restaurantLocation]
         IN  IF s.order.tag = "missing"
             THEN [st |-> [st1 EXCEPT !.appState = "MENU_VIEW"], slot |-> s, threw |-> FALSE]
             ELSE IF s.order.tag = "bad"
             THEN [st |-> st1, slot |-> Absent, threw |-> TRUE]
             ELSE [st |-> [st1 EXCEPT !.order = MapFromEntries(s.order.val),
                                      !.appState = "MENU_VIEW"],
                   slot |-> s, threw |-> FALSE]

LoadEffect(i, st, s) ==
    IF i = "full" THEN LoadEffectFull(st, s) ELSE LoadEffectCompact(st, s)

\* stateToSave, as JSON.stringify writes it and JSON.parse reads it back
Snapshot(st) ==
    Json(Items(st.menuItems), st.restaurantName, st.restaurantLocation,
         Pairs(MapEntries(st.order)))

\* a save effect without the menuItems.length guard
SaveEffectCompact_noGuard(st, s) == Snapshot(st)

\* src/src/App.tsx, save effect: the slot after it ran
SaveEffectFull(st, s) ==
    IF st.appState = "UPLOAD" \/ st.appState = "PROCESSING_MENU" THEN s
    ELSE IF Len(st.menuItems) > 0 THEN Snapshot(st) ELSE s

\* src/App.tsx, save effect
SaveEffectCompact(st, s) ==
    IF Len(st.menuItems) > 0 THEN Snapshot(st) ELSE s

SaveEffect(i, st, s) ==
    IF i = "full" THEN SaveEffectFull(st, s) ELSE SaveEffectCompact(st, s)

\* a dependency list without restaurantName and restaurantLocation
DepsChanged_ignoresIdentity(i, old, new, fresh) ==
    \/ fresh
    \/ old.menuItems # new.menuItems
    \/ old.order # new.order
    \/ i = "full" /\ old.appState # new.appState

\* the effect's dependency array: fresh says a setter was given a new array or Map
DepsChanged(i, old, new, fresh) ==
    \/ fresh
    \/ old.menuItems # new.menuItems
    \/ old.restaurantName # new.restaurantName
    \/ old.restaurantLocation # new.restaurantLocation
    \/ old.order # new.order
    \/ i = "full" /\ old.appState # new.appState

\* the slot after the render that follows a handler
AfterRender(i, old, new, fresh, s) ==
    IF DepsChanged(i, old, new, fresh) THEN SaveEffect(i, new, s) ELSE s

(***************************************************************************)
(* Handlers, as functions of the component state.                          *)
(***************************************************************************)
\* handleFileSelect up to its await
handleFileSelectStart(st) == [st EXCEPT !.appState = "PROCESSING_MENU"]

\* a scan that installs the catalog and keeps the old ledger
handleFileSelectFull_keepsOrder(st, result) ==
    IF result.kind = "reject" \/ Len(result.items) = 0
    THEN [st EXCEPT !.appState = "UPLOAD"]
    ELSE [st EXCEPT !.menuItems = result.items,
                    !.restaurantName = IF result.restaurantName # ""
                                       THEN result.restaurantName
                                       ELSE "Unknown Restaurant",
                    !.restaurantLocation = "",
                    !.appState = "MENU_VIEW"]

\* src/src/App.tsx handleFileSelect from the await on
handleFileSelectFull(st, result) ==
    IF result.kind = "reject" \/ Len(result.items) = 0
    THEN [st EXCEPT !.appState = "UPLOAD"]
    ELSE [st EXCEPT !.menuItems = result.items,
                    !.restaurantName = IF result.restaurantName # ""
                                       THEN result.restaurantName
                                       ELSE "Unknown Restaurant",
                    !.restaurantLocation = "",
                    !.order = EmptyMap,
                    !.appState = "MENU_VIEW"]

\* src/App.tsx handleFileSelect from the await on
handleFileSelectCompact(st, result) ==
    IF result.kind = "reject"
    THEN [st EXCEPT !.appState = "UPLOAD"]
    ELSE [st EXCEPT !.menuItems = result.items,
                    !.restaurantName = IF result.restaurantName # ""
                                       THEN result.restaurantName
                                       ELSE "Unknown Restaurant",
                    !.order = EmptyMap,
                    !.appState = "MENU_VIEW"]

handleFileSelect(i, st, result) ==
    IF i = "full" THEN handleFileSelectFull(st, result)
    ELSE handleFileSelectCompact(st, result)

\* whether the handler took its success path
ScanInstalls(i, result) ==
    result.kind = "ok" /\ (i = "compact" \/ Len(result.items) > 0)

\* src/src/App.tsx resetApp, after localStorage.removeItem
resetAppFull(st) ==
    [st EXCEPT !.menuItems = <<>>, !.restaurantName = "", !.restaurantLocation = "",
               !.order = EmptyMap, !.appState = "UPLOAD"]

\* a reset that forgets setMenuItems([])
resetAppCompact_keepsCatalog(st) == [st EXCEPT !.appState = "UPLOAD"]

\* src/App.tsx, the reset button's onClick, after localStorage.removeItem
resetAppCompact(st) == [st EXCEPT !.menuItems = <<>>, !.appState = "UPLOAD"]

resetApp(i, st) == IF i = "full" THEN resetAppFull(st) ELSE resetAppCompact(st)

\* an editor save that also drops the first dish of the catalog
onSave_dropsFirstDish(st, name, loc) ==
    [st EXCEPT !.restaurantName = name, !.restaurantLocation = loc,
               !.menuItems = IF st.menuItems = <<>> THEN <<>> ELSE Tail(st.menuItems)]

\* RestaurantEditModal onSave
onSave(st, name, loc) ==
    [st EXCEPT !.restaurantName = name, !.restaurantLocation = loc]

\* the header shows the button that opens the restaurant editor
EditButtonShown(i, st) ==
    IF i = "full" THEN st.restaurantName # "" \/ st.appState = "MENU_VIEW"
    ELSE st.restaurantName # ""

(***************************************************************************)
(* Actions of the running app.  Each is one handler with the render and    *)
(* the save effect that follow it.                                         *)
(***************************************************************************)
\* the claim's notion of a slot that is not a well-formed snapshot
Malformed(s) ==
    \/ s.kind \in {"garbage", "null"}
    \/ s.kind = "json" /\ (~s.menuItems.has \/ s.order.tag = "bad")

Other == [op |-> "other", flag |-> FALSE]
NoCall == [id |-> "", delta |-> 0, prev |-> EmptyMap]

Init ==
    /\ impl \in Impls
    /\ pc = "boot"
    /\ appState = InitialState.appState
    /\ menuItems = InitialState.menuItems
    /\ restaurantName = InitialState.restaurantName
    /\ restaurantLocation = InitialState.restaurantLocation
    /\ order = InitialState.order
    /\ isOrderModalOpen = FALSE
    /\ isEditRestaurantOpen = FALSE
    /\ slot \in SlotInputs
    /\ parsePending = 0
    /\ last = [op |-> "init", flag |-> FALSE]
    /\ hist = <<>>
    /\ call = NoCall
    /\ ModalInit
    /\ GridInit
    /\ pending = <<>>
    /\ AsyncInit
    /\ ChatInit

\* both mount effects with the state of the first render, then the render of the
\* loaded state and the save effect again
Mount ==
    /\ pc = "boot"
    /\ pc' = "run"
    /\ LET r == LoadEffect(impl, Cur, slot)
           s1 == SaveEffect(impl, Cur, r.slot)
       IN  /\ Install(r.st)
           /\ slot' = AfterRender(impl, Cur, r.st, FALSE, s1)
           /\ last' = [op |-> IF r.threw THEN "mountThrew" ELSE "mount",
                       flag |-> Malformed(slot)]
    /\ UNCHANGED <<modalVars, gridVars, pending>>
    /\ UNCHANGED <<recVars, detailVars, chatVars>>
    /\ UNCHANGED <<impl, isOrderModalOpen, isEditRestaurantOpen, parsePending, hist, call>>

\* FileUpload is rendered in UPLOAD only
StartScan ==
    /\ pc = "run"
    /\ appState = "UPLOAD"
    /\ parsePending < MaxInFlight
    /\ parsePending' = parsePending + 1
    /\ LET new == handleFileSelectStart(Cur)
       IN  /\ Install(new)
           /\ slot' = AfterRender(impl, Cur, new, FALSE, slot)
    /\ last' = Other
    /\ UNCHANGED <<modalVars, gridVars, pending>>
    \* setLoading(true)
    /\ loading' = TRUE
    /\ UNCHANGED <<recommendations, recsPending, detailVars, chatVars>>
    /\ UNCHANGED <<impl, pc, isOrderModalOpen, isEditRestaurantOpen, hist, call>>

\* an awaited parseMenuImage call settles
ScanResolve ==
    /\ pc = "run"
    /\ parsePending > 0
    /\ parsePending' = parsePending - 1
    /\ \E result \in ParseOutcomes :
          LET new == handleFileSelect(impl, Cur, result)
              ok == ScanInstalls(impl, result)
          IN  /\ Install(new)
              /\ slot' = AfterRender(impl, Cur, new, ok, slot)
              /\ last' = IF ok
                         THEN [op |-> "scanOk",
                               flag |-> \E k \in 1..Len(order) :
                                           Find(result.items, order[k].name) # 0]
                         ELSE [op |-> "scanFail", flag |-> FALSE]
    /\ UNCHANGED <<modalVars, gridVars, pending>>
    \* finally: setLoading(false)
    /\ loading' = FALSE
    /\ UNCHANGED <<recommendations, recsPending, detailVars, chatVars>>
    /\ UNCHANGED <<impl, pc, isOrderModalOpen, isEditRestaurantOpen, hist, call>>

Quantity(m, k) == IF MapHas(m, k) /\ MapGet(m, k) # 0 THEN MapGet(m, k) ELSE 0

Adjust(id, delta) ==
    /\ Quantity(order, id) + delta <= MaxQty
    /\ LET new == [Cur EXCEPT !.order = handleUpdateOrder(impl, order, id, delta)]
       IN  /\ Install(new)
           /\ slot' = AfterRender(impl, Cur, new, TRUE, slot)
    /\ last' = [op |-> "adjust", flag |-> FALSE]
    /\ UNCHANGED <<modalVars, gridVars, pending>>
    /\ UNCHANGED <<recVars, detailVars, chatVars>>
    /\ UNCHANGED <<impl, pc, isOrderModalOpen, isEditRestaurantOpen, parsePending,
                   hist, call>>

\* MenuGrid: + on every dish, - on a dish whose quantity is above 0
AdjustFromGrid ==
    /\ pc = "run"
    /\ appState = "MENU_VIEW"
    /\ \E k \in 1..Len(menuItems), delta \in {-1, 1} :
          /\ delta = -1 => Quantity(order, menuItems[k].originalName) > 0
          /\ Adjust(menuItems[k].originalName, delta)

\* OrderModal, cart mode: - and + on every cart item
AdjustFromModal ==
    /\ pc = "run"
    /\ isOrderModalOpen
    /\ \E k \in 1..Len(cartItems(order, menuItems)), delta \in {-1, 1} :
          Adjust(cartItems(order, menuItems)[k].name, delta)

\* the floating order bar is rendered while totalItems > 0
OpenOrderModal ==
    /\ pc = "run"
    /\ totalItems(order) > 0
    /\ ~isOrderModalOpen
    /\ isOrderModalOpen' = TRUE
    /\ last' = Other
    /\ UNCHANGED <<modalVars, gridVars, pending>>
    /\ UNCHANGED <<recVars, detailVars, chatVars>>
    /\ UNCHANGED <<impl, pc, appState, menuItems, restaurantName, restaurantLocation,
                   order, isEditRestaurantOpen, slot, parsePending, hist, call>>

CloseOrderModal ==
    /\ pc = "run"
    /\ isOrderModalOpen
    /\ isOrderModalOpen' = FALSE
    /\ last' = Other
    /\ UNCHANGED <<modalVars, gridVars, pending>>
    /\ UNCHANGED <<recVars, detailVars, chatVars>>
    /\ UNCHANGED <<impl, pc, appState, menuItems, restaurantName, restaurantLocation,
                   order, isEditRestaurantOpen, slot, parsePending, hist, call>>

\* the reset button is rendered while appState is not UPLOAD
Reset ==
    /\ pc = "run"
    /\ appState # "UPLOAD"
    /\ LET new == resetApp(impl, Cur)
       IN  /\ Install(new)
           /\ slot' = AfterRender(impl, Cur, new, TRUE, Absent)
    \* flag: the reset found a persisted snapshot and a catalog to discard
    /\ last' = [op |-> "reset", flag |-> slot # Absent /\ Len(menuItems) > 0]
    /\ UNCHANGED <<modalVars, gridVars, pending>>
    \* src/src/App.tsx resetApp also calls setRecommendations([])
    /\ recommendations' = IF impl = "full" THEN <<>> ELSE recommendations
    /\ UNCHANGED <<loading, recsPending, detailVars, chatVars>>
    /\ UNCHANGED <<impl, pc, isOrderModalOpen, isEditRestaurantOpen, parsePending,
                   hist, call>>

OpenEdit ==
    /\ pc = "run"
    /\ ~isEditRestaurantOpen
    /\ EditButtonShown(impl, Cur)
    /\ isEditRestaurantOpen' = TRUE
    /\ last' = Other
    /\ UNCHANGED <<modalVars, gridVars, pending>>
    /\ UNCHANGED <<recVars, detailVars, chatVars>>
    /\ UNCHANGED <<impl, pc, appState, menuItems, restaurantName, restaurantLocation,
                   order, isOrderModalOpen, slot, parsePending, hist, call>>

\* the editor's save button: onSave(name, location); onClose()
SaveEdit ==
    /\ pc = "run"
    /\ isEditRestaurantOpen
    /\ isEditRestaurantOpen' = FALSE
    /\ \E name \in NameInputs, loc \in LocationInputs :
          LET new == onSave(Cur, name, loc)
          IN  /\ Install(new)
              /\ slot' = AfterRender(impl, Cur, new, FALSE, slot)
    /\ last' = Other
    /\ UNCHANGED <<modalVars, gridVars, pending>>
    /\ UNCHANGED <<recVars, detailVars, chatVars>>
    /\ UNCHANGED <<impl, pc, isOrderModalOpen, parsePending, hist, call>>

\* "Get Recs" in MENU_VIEW; "Back to Menu" in RECOMMENDATION_VIEW
Navigate ==
    /\ pc = "run"
    /\ appState \in {"MENU_VIEW", "RECOMMENDATION_VIEW"}
    /\ LET new == [Cur EXCEPT !.appState = IF appState = "MENU_VIEW"
                                           THEN "RECOMMENDATION_VIEW"
                                           ELSE "MENU_VIEW"]
       IN  /\ Install(new)
           /\ slot' = AfterRender(impl, Cur, new, FALSE, slot)
    /\ last' = Other
    /\ UNCHANGED <<modalVars, gridVars, pending>>
    /\ UNCHANGED <<recVars, detailVars, chatVars>>
    /\ UNCHANGED <<impl, pc, isOrderModalOpen, isEditRestaurantOpen, parsePending,
                   hist, call>>

Next ==
    \/ Mount
    \/ StartScan
    \/ ScanResolve
    \/ AdjustFromGrid
    \/ AdjustFromModal
    \/ OpenOrderModal
    \/ CloseOrderModal
    \/ Reset
    \/ OpenEdit
    \/ SaveEdit
    \/ Navigate

Spec == Init /\ [][Next]_vars

(***************************************************************************)
(* SpecLedger: handleUpdateOrder called with arbitrary integer deltas on a *)
(* ledger that starts without TrackedId; hist is the calls made so far.    *)
(***************************************************************************)
StartLedgers ==
    {EmptyMap} \cup {<<[name |-> "b", qty |-> q]>> : q \in -1..1}

InitLedger ==
    /\ impl \in Impls
    /\ pc = "ledger"
    /\ appState = InitialState.appState
    /\ menuItems = InitialState.menuItems
    /\ restaurantName = InitialState.restaurantName
    /\ restaurantLocation = InitialState.restaurantLocation
    /\ order \in StartLedgers
    /\ isOrderModalOpen = FALSE
    /\ isEditRestaurantOpen = FALSE
    /\ slot = Absent
    /\ parsePending = 0
    /\ last = Other
    /\ hist = <<>>
    /\ call = NoCall
    /\ ModalInit
    /\ GridInit
    /\ pending = <<>>
    /\ AsyncInit
    /\ ChatInit

LedgerCall ==
    /\ pc = "ledger"
    /\ Len(hist) < MaxCalls
    /\ \E id \in Ids, delta \in Deltas :
          /\ order' = handleUpdateOrder(impl, order, id, delta)
          /\ hist' = Append(hist, <<id, delta>>)
          /\ call' = [id |-> id, delta |-> delta, prev |-> order]
    /\ UNCHANGED <<modalVars, gridVars, pending>>
    /\ UNCHANGED <<recVars, detailVars, chatVars>>
    /\ UNCHANGED <<impl, pc, appState, menuItems, restaurantName, restaurantLocation,
                   isOrderModalOpen, isEditRestaurantOpen, slot, parsePending, last>>

NextLedger == LedgerCall

SpecLedger == InitLedger /\ [][NextLedger]_vars

\* the deltas of the calls made for TrackedId, in call order
TrackedDeltas ==
    LET mine(c) == c[1] = TrackedId
        calls == SelectSeq(hist, mine)
    IN  [i \in 1..Len(calls) |-> calls[i][2]]

RECURSIVE SumSeq(_)
SumSeq(ds) == IF ds = <<>> THEN 0 ELSE Head(ds) + SumSeq(Tail(ds))

\* q_0 = 0, q_i = max(0, q_(i-1) + delta_i)
RECURSIVE ClampedSum(_)
ClampedSum(ds) ==
    IF ds = <<>> THEN 0
    ELSE Max(0, ClampedSum(SubSeq(ds, 1, Len(ds) - 1)) + ds[Len(ds)])

NoDip(ds) == \A n \in 1..Len(ds) : SumSeq(SubSeq(ds, 1, n)) >= 0

Stored(m, k) == IF MapHas(m, k) THEN MapGet(m, k) ELSE 0

(***************************************************************************)
(* C1 (as stated): after any sequence of handleUpdateOrder(id, delta)      *)
(* calls from a ledger without id, the stored quantity is max(0, sum of    *)
(* the deltas) and id is absent exactly when that is 0.                    *)
(***************************************************************************)
C1_FinalIsClampedTotal ==
    pc = "ledger" =>
        /\ Stored(order, TrackedId) = Max(0, SumSeq(TrackedDeltas))
        /\ ~MapHas(order, TrackedId) <=> Max(0, SumSeq(TrackedDeltas)) = 0

(***************************************************************************)
(* C1 (amended): the stored quantity is the running value clamped at 0     *)
(* after every call, which is max(0, sum of the deltas) whenever no        *)
(* prefix of the deltas sums below 0; id is absent exactly when the        *)
(* stored quantity is 0.                                                   *)
(***************************************************************************)
C1_FinalIsRunningClamp ==
    pc = "ledger" =>
        /\ Stored(order, TrackedId) = ClampedSum(TrackedDeltas)
        /\ NoDip(TrackedDeltas) =>
              Stored(order, TrackedId) = Max(0, SumSeq(TrackedDeltas))
        /\ ~MapHas(order, TrackedId) <=> ClampedSum(TrackedDeltas) = 0

C1_Witness ==
    /\ pc = "ledger"
    /\ Len(TrackedDeltas) = MaxCalls
    /\ \E n \in 1..Len(TrackedDeltas) : TrackedDeltas[n] < 0
    /\ NoDip(TrackedDeltas)
    /\ MapHas(order, TrackedId)

(***************************************************************************)
(* C2: in every reachable state of the app every ledger entry has a        *)
(* quantity of at least 1.                                                 *)
(***************************************************************************)
C2_QuantitiesPositive ==
    pc = "run" => \A k \in 1..Len(order) : order[k].qty >= 1

(***************************************************************************)
(* C3: one handleUpdateOrder(id, delta) call on a ledger L leaves          *)
(* q = max(0, (L[id] or 0) + delta) for id (absent when q = 0), leaves     *)
(* every other identity's entry as it was, and both implementations give   *)
(* the same ledger.                                                        *)
(***************************************************************************)
C3_SingleCall ==
    call.id # "" =>
        LET L == call.prev
            q == Max(0, Stored(L, call.id) + call.delta)
        IN  /\ q = 0 => ~MapHas(order, call.id)
            /\ q > 0 => MapHas(order, call.id) /\ MapGet(order, call.id) = q
            /\ \A other \in Ids \ {call.id} :
                  /\ MapHas(order, other) <=> MapHas(L, other)
                  /\ MapHas(L, other) => MapGet(order, other) = MapGet(L, other)
            /\ handleUpdateOrderFull(L, call.id, call.delta)
                  = handleUpdateOrderCompact(L, call.id, call.delta)

C3_Witness ==
    /\ call.id = "a"
    /\ call.delta < 0
    /\ MapHas(call.prev, "a")
    /\ MapHas(call.prev, "b")
    /\ ~MapHas(order, "a")
    /\ MapHas(order, "b")

(***************************************************************************)
(* C4: totalItems is the sum of the quantities of the entries present,     *)
(* and taking one unit off every entry as many times as its quantity       *)
(* leaves the ledger empty and totalItems 0.                               *)
(***************************************************************************)
RECURSIVE ApplyTimes(_, _, _, _)
ApplyTimes(i, m, id, n) ==
    IF n <= 0 THEN m ELSE ApplyTimes(i, handleUpdateOrder(i, m, id, -1), id, n - 1)

RECURSIVE DrainFrom(_, _, _)
DrainFrom(i, m, entries) ==
    IF entries = <<>> THEN m
    ELSE DrainFrom(i, ApplyTimes(i, m, Head(entries).name, Head(entries).qty),
                   Tail(entries))

Drain(i, m) == DrainFrom(i, m, m)

RECURSIVE SumOver(_, _)
SumOver(m, names) ==
    IF names = {} THEN 0
    ELSE LET n == CHOOSE x \in names : TRUE
         IN  Stored(m, n) + SumOver(m, names \ {n})

C4_TotalAndDrain ==
    pc = "run" =>
        /\ totalItems(order) = SumOver(order, {order[k].name : k \in 1..Len(order)})
        /\ Drain(impl, order) = EmptyMap
        /\ totalItems(Drain(impl, order)) = 0

(***************************************************************************)
(* C5: after every successful scan the ledger is empty, whatever it held   *)
(* before, also when the new catalog has identities the old ledger used.   *)
(***************************************************************************)
C5_ScanEmptiesLedger == last.op = "scanOk" => order = EmptyMap

C5_Witness == last.op = "scanOk" /\ last.flag /\ Len(menuItems) > 0

(***************************************************************************)
(* C6: a ledger entry whose identity no dish of the catalog has is left    *)
(* out of cartItems, adds nothing to totalPrice and cartTotal, and is      *)
(* counted in totalItems.                                                  *)
(***************************************************************************)
IsOrphan(e) == \A i \in 1..Len(menuItems) : menuItems[i].originalName # e.name

Resolved(e) == ~IsOrphan(e)

C6_OrphansExcluded ==
    pc = "run" =>
        LET cart == cartItems(order, menuItems)
            kept == SelectSeq(order, Resolved)
            lost == SelectSeq(order, IsOrphan)
        IN  /\ \A k \in 1..Len(lost), c \in 1..Len(cart) : cart[c].name # lost[k].name
            /\ Len(cart) = Len(kept)
            /\ totalPrice(order, menuItems) = totalPrice(kept, menuItems)
            /\ cartTotal(cart) = totalPrice(kept, menuItems)
            /\ totalItems(order) = SumValues(kept) + SumValues(lost)

C6_Witness ==
    /\ pc = "run"
    /\ \E k \in 1..Len(order) : IsOrphan(order[k]) /\ order[k].qty > 0
    /\ totalPrice(order, menuItems) > 0
    /\ Len(cartItems(order, menuItems)) > 0

(***************************************************************************)
(* C7: the snapshot the save effect writes for a state with a non-empty    *)
(* catalog, read back by the startup load, gives the same dishes, name,    *)
(* location and ledger entries in the same order.                          *)
(***************************************************************************)
C7_RoundTrip ==
    (pc = "run" /\ Len(menuItems) > 0) =>
        LET written == SaveEffect(impl, Cur, Absent)
            r == LoadEffect(impl, InitialState, written)
        IN  written # Absent =>
               /\ ~r.threw
               /\ r.st.menuItems = menuItems
               /\ r.st.restaurantName = restaurantName
               /\ r.st.restaurantLocation = restaurantLocation
               /\ r.st.order = order

C7_Witness ==
    /\ pc = "run"
    /\ last.op = "other"
    /\ slot = Snapshot(Cur)
    /\ Len(order) = 2
    /\ order[1].name = "b"
    /\ restaurantName # ""
    /\ restaurantLocation # ""

(***************************************************************************)
(* C8: the slot is never written with an empty catalog: whenever a step    *)
(* changes the slot, it is erased or holds the snapshot of a state with    *)
(* at least one dish.                                                      *)
(***************************************************************************)
C8_NeverWritesEmptyCatalog ==
    [][slot' # slot =>
          \/ slot' = Absent
          \/ /\ Len(menuItems') > 0
             /\ slot'.kind = "json"
             /\ slot'.menuItems = Items(menuItems')]_vars

C8_Witness ==
    /\ last.op = "scanFail"
    /\ slot.kind = "json"
    /\ Len(slot.menuItems.val) > 0
    /\ slot.menuItems.val = menuItems

(***************************************************************************)
(* C9: for every slot content that is not a well-formed snapshot the       *)
(* startup load leaves the slot erased.                                    *)
(***************************************************************************)
C9_MalformedSlotErased ==
    (last.op \in {"mount", "mountThrew"} /\ last.flag) => slot = Absent

(***************************************************************************)
(* C10: when the startup load fails on bad slot content the app is left    *)
(* as without a prior session: nothing of the snapshot is installed.       *)
(***************************************************************************)
C10_NoPartialHydration ==
    (last.op \in {"mount", "mountThrew"} /\ last.flag) => Cur = InitialState

(***************************************************************************)
(* C11: once the reset-to-new-scan handler and the save effect of the      *)
(* render that follows it have run, the persisted slot is absent, the      *)
(* catalog is empty and appState is UPLOAD.                                *)
(***************************************************************************)
C11_ResetErasesSlot ==
    last.op = "reset" =>
        /\ slot = Absent
        /\ menuItems = <<>>
        /\ appState = "UPLOAD"

\* a reset that discarded a catalog whose snapshot was in the slot
C11_Witness ==
    /\ last.op = "reset"
    /\ last.flag
    /\ slot = Absent

(***************************************************************************)
(* C12: in MENU_VIEW or RECOMMENDATION_VIEW with a non-empty catalog, once *)
(* the effects of the last render have run, the persisted slot holds       *)
(* exactly the current menuItems, restaurantName, restaurantLocation and   *)
(* ledger entries.                                                         *)
(***************************************************************************)
C12_SlotIsCurrent ==
    (/\ pc = "run"
     /\ appState \in {"MENU_VIEW", "RECOMMENDATION_VIEW"}
     /\ Len(menuItems) > 0)
        => slot = Snapshot(Cur)

\* a scanned catalog whose location was edited and whose ledger was adjusted
C12_Witness ==
    /\ pc = "run"
    /\ appState \in {"MENU_VIEW", "RECOMMENDATION_VIEW"}
    /\ menuItems = <<DishB2, DishA>>
    /\ restaurantLocation = "L"
    /\ Len(order) > 0
    /\ slot = Snapshot(Cur)

(***************************************************************************)
(* OrderModal's bill splitter.  Money is in hundredths; the quotients of   *)
(* the bill calculations are exact fractions [n, d] with d > 0.            *)
(***************************************************************************)
MaxSplit == 4

Frac(n, d) == [n |-> n, d |-> d]
FracMul(x, y) == Frac(x.n * y.n, x.d * y.d)
FracAdd(x, y) == Frac(x.n * y.d + y.n * x.d, x.d * y.d)
\* x / y for y > 0
FracDiv(x, y) == Frac(x.n * y.d, x.d * y.n)
FracEq(x, y) == x.n * y.d = y.n * x.d

DigitChar(d) == CHOOSE c \in DigitChars : DigitVal(c) = d

RECURSIVE DigitsOf(_)
DigitsOf(n) ==
    IF n < 10 THEN <<DigitChar(n)>>
    ELSE Append(DigitsOf(n \div 10), DigitChar(n % 10))

\* cartTotal.toFixed(2) of a total of c hundredths, c >= 0
ToFixed2(c) ==
    DigitsOf(c \div (10 * 10)) \o <<".", DigitChar((c \div 10) % 10), DigitChar(c % 10)>>

\* parseFloat(customBillAmount) || 0, in hundredths: a string that starts
\* with a digit is read up to the end of its digits, point and digits; the
\* empty string and a string that starts otherwise give NaN, hence 0
billBase(amount) ==
    IF amount # <<>> /\ amount[1] \in DigitChars
    THEN ParseFloatCents(PriceMatch(amount))
    ELSE 0

\* a tip computed with an integer quotient of the percentage
tipAmount_integerQuotient(base, pct) == Frac(base * (pct \div (10 * 10)), 1)

\* billBase * (tipPercent / 100)
tipAmount(base, pct) == FracMul(Frac(base, 1), FracDiv(Frac(pct, 1), Frac(10 * 10, 1)))

finalTotal(base, pct) == FracAdd(Frac(base, 1), tipAmount(base, pct))

splitBy(count) == Max(1, count)

perPersonTotal(base, pct, count) == FracDiv(finalTotal(base, pct), Frac(splitBy(count), 1))
perPersonBill(base, count) == FracDiv(Frac(base, 1), Frac(splitBy(count), 1))
perPersonTip(base, pct, count) == FracDiv(tipAmount(base, pct), Frac(splitBy(count), 1))

\* the tip buttons
TipPresets == {0, 15, 18, 20}

\* what the user types into the amount field
AmountInputs == {<<>>, <<"1", "0", "0">>, <<"1", "2", ".", "5">>, <<"7">>}

\* an effect that fills the amount in only when the modal opens
OrderModalEffect_onOpenOnly(wasOpen, isOpen, oldTotal, newTotal, amount) ==
    IF isOpen /\ wasOpen # isOpen THEN ToFixed2(newTotal) ELSE amount

\* useEffect(() => { if (isOpen) setCustomBillAmount(cartTotal.toFixed(2)) },
\* [isOpen, cartTotal]) after a render
OrderModalEffect(wasOpen, isOpen, oldTotal, newTotal, amount) ==
    IF isOpen /\ (wasOpen # isOpen \/ oldTotal # newTotal)
    THEN ToFixed2(newTotal)
    ELSE amount

\* a decrement button without the clamp
splitDecrement_noClamp(count) == count - 1

\* setSplitCount(Math.max(1, splitCount - 1))
splitDecrement(count) == Max(1, count - 1)

\* setSplitCount(splitCount + 1)
splitIncrement(count) == count + 1

\* the catalog the splitter is exercised on: a priced dish and one without price
BillCatalog == <<DishA, DishB>>

CartTotalOf(m) == cartTotal(cartItems(m, BillCatalog))

(***************************************************************************)
(* SpecBill: App in MENU_VIEW over BillCatalog with OrderModal mounted;    *)
(* the ledger is adjusted from the grid and from the modal's cart, the     *)
(* modal is opened and closed, and the bill splitter's controls are used.  *)
(***************************************************************************)
InitBill ==
    /\ impl = "full"
    /\ pc = "bill"
    /\ appState = "MENU_VIEW"
    /\ menuItems = BillCatalog
    /\ restaurantName = ""
    /\ restaurantLocation = ""
    /\ order = EmptyMap
    /\ isOrderModalOpen = FALSE
    /\ isEditRestaurantOpen = FALSE
    /\ slot = Snapshot(Cur)
    /\ parsePending = 0
    /\ last = Other
    /\ hist = <<>>
    /\ call = NoCall
    /\ ModalInit
    /\ GridInit
    /\ pending = <<>>
    /\ AsyncInit
    /\ ChatInit

\* a ledger adjust, the save effect and OrderModal's effect of the render
\* that follows; flag: the modal was open on an amount other than the total
BillAdjust(id, delta) ==
    /\ Quantity(order, id) + delta <= MaxQty
    /\ LET new == [Cur EXCEPT !.order = handleUpdateOrder(impl, order, id, delta)]
       IN  /\ Install(new)
           /\ slot' = AfterRender(impl, Cur, new, TRUE, slot)
           /\ customBillAmount' =
                 OrderModalEffect(isOrderModalOpen, isOrderModalOpen,
                                  CartTotalOf(order), CartTotalOf(new.order),
                                  customBillAmount)
    /\ last' = [op |-> "adjust",
                flag |-> isOrderModalOpen
                         /\ billBase(customBillAmount) # CartTotalOf(order)]
    /\ UNCHANGED <<recVars, detailVars, chatVars>>
    /\ UNCHANGED <<impl, pc, isOrderModalOpen, isEditRestaurantOpen, parsePending,
                   hist, call, mode, tipPercent, splitCount, gridVars, pending>>

\* MenuGrid's buttons; the open modal covers the grid
BillAdjustFromGrid ==
    /\ pc = "bill"
    /\ ~isOrderModalOpen
    /\ \E k \in 1..Len(menuItems), delta \in {-1, 1} :
          /\ delta = -1 => Quantity(order, menuItems[k].originalName) > 0
          /\ BillAdjust(menuItems[k].originalName, delta)

\* the - and + of a cart line
BillAdjustFromModal ==
    /\ pc = "bill"
    /\ isOrderModalOpen
    /\ mode = "cart"
    /\ \E k \in 1..Len(cartItems(order, menuItems)), delta \in {-1, 1} :
          BillAdjust(cartItems(order, menuItems)[k].name, delta)

BillOpen ==
    /\ pc = "bill"
    /\ totalItems(order) > 0
    /\ ~isOrderModalOpen
    /\ isOrderModalOpen' = TRUE
    /\ customBillAmount' =
          OrderModalEffect(FALSE, TRUE, CartTotalOf(order), CartTotalOf(order),
                           customBillAmount)
    /\ last' = [op |-> "open", flag |-> FALSE]
    /\ UNCHANGED <<recVars, detailVars, chatVars>>
    /\ UNCHANGED <<impl, pc, appState, menuItems, restaurantName, restaurantLocation,
                   order, isEditRestaurantOpen, slot, parsePending, hist, call,
                   mode, tipPercent, splitCount, gridVars, pending>>

BillClose ==
    /\ pc = "bill"
    /\ isOrderModalOpen
    /\ isOrderModalOpen' = FALSE
    /\ customBillAmount' =
          OrderModalEffect(TRUE, FALSE, CartTotalOf(order), CartTotalOf(order),
                           customBillAmount)
    /\ last' = [op |-> "close", flag |-> FALSE]
    /\ UNCHANGED <<recVars, detailVars, chatVars>>
    /\ UNCHANGED <<impl, pc, appState, menuItems, restaurantName, restaurantLocation,
                   order, isEditRestaurantOpen, slot, parsePending, hist, call,
                   mode, tipPercent, splitCount, gridVars, pending>>

\* the footer: Split Bill and Waiter View (disabled on an empty cart) in
\* cart mode, Back to Edit Order in the two other modes
SetMode ==
    /\ pc = "bill"
    /\ isOrderModalOpen
    /\ \E m \in {"cart", "waiter", "bill"} :
          /\ IF mode = "cart"
             THEN m # "cart" /\ Len(cartItems(order, menuItems)) > 0
             ELSE m = "cart"
          /\ mode' = m
    /\ last' = [op |-> "mode", flag |-> FALSE]
    /\ UNCHANGED <<recVars, detailVars, chatVars>>
    /\ UNCHANGED <<impl, pc, appState, menuItems, restaurantName, restaurantLocation,
                   order, isOrderModalOpen, isEditRestaurantOpen, slot, parsePending,
                   hist, call, tipPercent, splitCount, customBillAmount, gridVars,
                   pending>>

\* the amount field's onChange
EditAmount ==
    /\ pc = "bill"
    /\ isOrderModalOpen
    /\ mode = "bill"
    /\ \E v \in AmountInputs : customBillAmount' = v
    /\ last' = [op |-> "editAmount", flag |-> FALSE]
    /\ UNCHANGED <<recVars, detailVars, chatVars>>
    /\ UNCHANGED <<impl, pc, appState, menuItems, restaurantName, restaurantLocation,
                   order, isOrderModalOpen, isEditRestaurantOpen, slot, parsePending,
                   hist, call, mode, tipPercent, splitCount, gridVars, pending>>

SetTip ==
    /\ pc = "bill"
    /\ isOrderModalOpen
    /\ mode = "bill"
    /\ \E pct \in TipPresets : tipPercent' = pct
    /\ last' = [op |-> "tip", flag |-> FALSE]
    /\ UNCHANGED <<recVars, detailVars, chatVars>>
    /\ UNCHANGED <<impl, pc, appState, menuItems, restaurantName, restaurantLocation,
                   order, isOrderModalOpen, isEditRestaurantOpen, slot, parsePending,
                   hist, call, mode, splitCount, customBillAmount, gridVars, pending>>

\* flag: the count was 1 when the button was pressed
SplitDec ==
    /\ pc = "bill"
    /\ isOrderModalOpen
    /\ mode = "bill"
    /\ splitCount' = splitDecrement(splitCount)
    /\ last' = [op |-> "splitDec", flag |-> splitCount = 1]
    /\ UNCHANGED <<recVars, detailVars, chatVars>>
    /\ UNCHANGED <<impl, pc, appState, menuItems, restaurantName, restaurantLocation,
                   order, isOrderModalOpen, isEditRestaurantOpen, slot, parsePending,
                   hist, call, mode, tipPercent, customBillAmount, gridVars, pending>>

SplitInc ==
    /\ pc = "bill"
    /\ isOrderModalOpen
    /\ mode = "bill"
    /\ splitCount < MaxSplit
    /\ splitCount' = splitIncrement(splitCount)
    /\ last' = [op |-> "splitInc", flag |-> FALSE]
    /\ UNCHANGED <<recVars, detailVars, chatVars>>
    /\ UNCHANGED <<impl, pc, appState, menuItems, restaurantName, restaurantLocation,
                   order, isOrderModalOpen, isEditRestaurantOpen, slot, parsePending,
                   hist, call, mode, tipPercent, customBillAmount, gridVars, pending>>

NextBill ==
    \/ BillAdjustFromGrid
    \/ BillAdjustFromModal
    \/ BillOpen
    \/ BillClose
    \/ SetMode
    \/ EditAmount
    \/ SetTip
    \/ SplitDec
    \/ SplitInc

SpecBill == InitBill /\ [][NextBill]_vars

(***************************************************************************)
(* C13: for the bill base b, the tip percentage p and the party count n of *)
(* every state of the splitter, tipAmount = b * p / 100, grandTotal =      *)
(* b + tipAmount, perPersonTotal = grandTotal / n, perPersonBillShare =    *)
(* b / n and perPersonTipShare = tipAmount / n as exact fractions; for     *)
(* b = 100, p = 18, n = 4 they are 18, 118 and 29.5, and for n = 1         *)
(* perPersonTotal is grandTotal.  Amounts are in hundredths.               *)
(***************************************************************************)
C13_BillFormulas ==
    pc = "bill" =>
        LET b == billBase(customBillAmount)
            p == tipPercent
            n == splitBy(splitCount)
        IN  /\ FracEq(tipAmount(b, p), Frac(b * p, 100))
            /\ FracEq(finalTotal(b, p), Frac(100 * b + b * p, 100))
            /\ FracEq(perPersonTotal(b, p, splitCount), Frac(100 * b + b * p, 100 * n))
            /\ FracEq(perPersonBill(b, splitCount), Frac(b, n))
            /\ FracEq(perPersonTip(b, p, splitCount), Frac(b * p, 100 * n))
            /\ (b = 10000 /\ p = 18 /\ n = 4) =>
                  /\ FracEq(tipAmount(b, p), Frac(1800, 1))
                  /\ FracEq(finalTotal(b, p), Frac(11800, 1))
                  /\ FracEq(perPersonTotal(b, p, splitCount), Frac(2950, 1))
            /\ n = 1 => FracEq(perPersonTotal(b, p, splitCount), finalTotal(b, p))

\* the splitter on a typed amount of 100 with 18 percent and four people
C13_Witness ==
    /\ pc = "bill"
    /\ isOrderModalOpen
    /\ mode = "bill"
    /\ customBillAmount = <<"1", "0", "0">>
    /\ tipPercent = 18
    /\ splitCount = 4

(***************************************************************************)
(* C14: the party count the splitter divides by is an integer of at least  *)
(* 1 in every state: the stored count never falls below 1, the decrement   *)
(* button pressed at 1 leaves it at 1, and a count below 1 would be        *)
(* raised to 1 before the division.                                        *)
(***************************************************************************)
C14_DivisorAtLeastOne ==
    pc = "bill" =>
        /\ splitCount \in Nat
        /\ splitCount >= 1
        /\ splitBy(splitCount) \in Nat
        /\ splitBy(splitCount) >= 1
        /\ (last.op = "splitDec" /\ last.flag) => splitCount = 1
        /\ \A c \in -MaxSplit..0 : splitBy(c) = 1

\* the decrement button was pressed at a party count of 1
C14_Witness ==
    /\ pc = "bill"
    /\ last.op = "splitDec"
    /\ last.flag
    /\ splitCount = 1

(***************************************************************************)
(* C15 as stated: while the order summary stays open, a ledger adjust      *)
(* leaves the bill base unchanged.                                         *)
(***************************************************************************)
C15_AdjustKeepsBillBase ==
    [][(pc = "bill" /\ isOrderModalOpen /\ isOrderModalOpen' /\ order' # order)
          => billBase(customBillAmount') = billBase(customBillAmount)]_vars

(***************************************************************************)
(* C15, amended: opening the order summary sets the bill base to the cart  *)
(* total; while it stays open the bill base changes only when the user     *)
(* edits the amount or when a ledger adjust changes the cart total, and    *)
(* then it becomes the new cart total, whatever the user had typed; an     *)
(* adjust that leaves the cart total as it was leaves the bill base too.   *)
(***************************************************************************)
C15_BillBaseFollowsCartTotal ==
    [][pc = "bill" =>
          /\ (~isOrderModalOpen /\ isOrderModalOpen')
                => billBase(customBillAmount') = CartTotalOf(order')
          /\ (isOrderModalOpen /\ isOrderModalOpen') =>
                /\ billBase(customBillAmount') # billBase(customBillAmount)
                      => \/ last'.op = "editAmount"
                         \/ /\ CartTotalOf(order') # CartTotalOf(order)
                            /\ billBase(customBillAmount') = CartTotalOf(order')
                /\ (order' # order /\ CartTotalOf(order') # CartTotalOf(order))
                      => billBase(customBillAmount') = CartTotalOf(order')
                /\ (order' # order /\ CartTotalOf(order') = CartTotalOf(order))
                      => billBase(customBillAmount') = billBase(customBillAmount)]_vars

\* an adjust in the open modal replaced an amount the user had typed
C15_Witness ==
    /\ pc = "bill"
    /\ isOrderModalOpen
    /\ last.op = "adjust"
    /\ last.flag
    /\ billBase(customBillAmount) = CartTotalOf(order)

(***************************************************************************)
(* MenuGrid.  A dish of the grid is [originalName, category, tags]: the    *)
(* category is a sequence of characters, empty when the dish has none, and *)
(* tags is the set of the strings in item.tags, empty when it is missing.  *)
(***************************************************************************)
MaxDishes == 3

TagNames == {"Vegetarian", "Vegan", "Contains Nuts", "Contains Pork", "Spicy"}

\* item.tags?.includes(tag)
hasTag(item, tag) == tag \in item.tags

isVeg(item) == hasTag(item, "Vegetarian") \/ hasTag(item, "Vegan")

\* a vegetarian filter that does not know the Vegan tag
isDimmed_ignoresVegan(filters, item) ==
    filters["vegetarian"] /\ ~hasTag(item, "Vegetarian")

isDimmed(filters, item) == filters["vegetarian"] /\ ~isVeg(item)
showNutWarning(filters, item) == filters["nutAllergy"] /\ hasTag(item, "Contains Nuts")
showPorkWarning(filters, item) == filters["noPork"] /\ hasTag(item, "Contains Pork")
isUnsafe(filters, item) == showNutWarning(filters, item) \/ showPorkWarning(filters, item)
highlightSpicy(filters, item) == filters["spicy"] /\ hasTag(item, "Spicy")

\* the warning overlay: the badges drawn on the card
WarningOverlay(filters, item) ==
    IF isUnsafe(filters, item)
    THEN <<IF showNutWarning(filters, item) THEN "CONTAINS NUTS" ELSE "CONTAINS PORK">>
    ELSE <<>>

\* one rendered card
Card(filters, item) ==
    [dish |-> item,
     isDimmed |-> isDimmed(filters, item),
     showNutWarning |-> showNutWarning(filters, item),
     showPorkWarning |-> showPorkWarning(filters, item),
     isUnsafe |-> isUnsafe(filters, item),
     highlightSpicy |-> highlightSpicy(filters, item),
     badges |-> WarningOverlay(filters, item)]

\* setActiveFilters(prev => ({ ...prev, [key]: !prev[key] }))
toggleFilter(filters, key) == [filters EXCEPT ![key] = ~filters[key]]

OtherLabel == <<"O", "t", "h", "e", "r">>

\* item.category || 'Other'
CategoryOf(item) == IF item.category = <<>> THEN OtherLabel ELSE item.category

\* an object as its own string keys in the order of their creation, each
\* with its value: [key, dishes]
HasKey(obj, k) == \E i \in 1..Len(obj) : obj[i].key = k

\* acc[cat].push(item), after acc[cat] = [] when the key is new
PushInto(obj, k, item) ==
    IF HasKey(obj, k)
    THEN [i \in 1..Len(obj) |->
            IF obj[i].key = k
            THEN [obj[i] EXCEPT !.dishes = Append(obj[i].dishes, item)]
            ELSE obj[i]]
    ELSE Append(obj, [key |-> k, dishes |-> <<item>>])

\* items.reduce(..., {}), from the left
RECURSIVE groupedInto(_, _)
groupedInto(acc, items) ==
    IF items = <<>> THEN acc
    ELSE groupedInto(PushInto(acc, CategoryOf(Head(items)), Head(items)), Tail(items))

grouped(items) == groupedInto(<<>>, items)

\* a key that is the canonical decimal form of an array index
IsArrayIndex(k) ==
    /\ k # <<>>
    /\ \A i \in 1..Len(k) : k[i] \in DigitChars
    /\ Len(k) > 1 => k[1] # "0"

\* the entries of obj at the positions S, by ascending index value
RECURSIVE IndexEntries(_, _)
IndexEntries(obj, S) ==
    IF S = {} THEN <<>>
    ELSE LET m == CHOOSE i \in S :
                     \A j \in S : DigitsValue(obj[i].key) <= DigitsValue(obj[j].key)
         IN  <<obj[m]>> \o IndexEntries(obj, S \ {m})

\* Object.entries: the array-index keys by ascending value, then the other
\* keys in the order of their creation
ObjectEntries(obj) ==
    LET isIndex(e) == IsArrayIndex(e.key)
        other(e) == ~IsArrayIndex(e.key)
    IN  IndexEntries(obj, {i \in 1..Len(obj) : isIndex(obj[i])}) \o SelectSeq(obj, other)

\* what MenuGrid draws: the groups in the order of Object.entries(grouped),
\* each with its cards
RenderGrid(items, filters) ==
    LET entries == ObjectEntries(grouped(items))
    IN  [kind |-> "grid",
         groups |-> [g \in 1..Len(entries) |->
                       [category |-> entries[g].key,
                        cards |-> [c \in 1..Len(entries[g].dishes) |->
                                     Card(filters, entries[g].dishes[c])]]]]

(***************************************************************************)
(* SpecGrid: MenuGrid mounted on a catalog, then the filter buttons.       *)
(***************************************************************************)
DishNames == <<"a", "b", "c", "d", "e">>

\* the category labels the parse is taken to return: none, a word, and two
\* numerals
CategoryLabels == {<<>>, <<"M">>, <<"7">>, <<"1", "0">>}

\* one dish for every set of tags
TagCatalogs ==
    {<<[originalName |-> DishNames[1], category |-> <<>>, tags |-> t]>> :
        t \in SUBSET TagNames}

\* up to MaxDishes untagged dishes for every choice of their categories
LabelCatalogs ==
    {[i \in 1..n |-> [originalName |-> DishNames[i], category |-> f[i], tags |-> {}]] :
        n \in 1..MaxDishes, f \in [1..MaxDishes -> CategoryLabels]}

GridCatalogs == TagCatalogs \cup LabelCatalogs

InitGrid ==
    /\ impl = "full"
    /\ pc = "gridboot"
    /\ appState = "MENU_VIEW"
    /\ menuItems \in GridCatalogs
    /\ restaurantName = ""
    /\ restaurantLocation = ""
    /\ order = EmptyMap
    /\ isOrderModalOpen = FALSE
    /\ isEditRestaurantOpen = FALSE
    /\ slot = Absent
    /\ parsePending = 0
    /\ last = Other
    /\ hist = <<>>
    /\ call = NoCall
    /\ ModalInit
    /\ GridInit
    /\ pending = <<>>
    /\ AsyncInit
    /\ ChatInit

\* the first render of MenuGrid
GridMount ==
    /\ pc = "gridboot"
    /\ pc' = "grid"
    /\ out' = RenderGrid(menuItems, activeFilters)
    /\ UNCHANGED <<recVars, detailVars, chatVars>>
    /\ UNCHANGED <<impl, appState, menuItems, restaurantName, restaurantLocation,
                   order, isOrderModalOpen, isEditRestaurantOpen, slot, parsePending,
                   last, hist, call, modalVars, activeFilters, pending>>

\* a filter button, and the render that follows
ToggleFilter ==
    /\ pc = "grid"
    /\ \E key \in FilterKeys :
          /\ activeFilters' = toggleFilter(activeFilters, key)
          /\ out' = RenderGrid(menuItems, activeFilters')
    /\ UNCHANGED <<recVars, detailVars, chatVars>>
    /\ UNCHANGED <<impl, pc, appState, menuItems, restaurantName, restaurantLocation,
                   order, isOrderModalOpen, isEditRestaurantOpen, slot, parsePending,
                   last, hist, call, modalVars, pending>>

NextGrid ==
    \/ GridMount
    \/ ToggleFilter

SpecGrid == InitGrid /\ [][NextGrid]_vars

\* the rendered cards, as <<group, card>> positions
CardPlaces ==
    {p \in (1..Len(menuItems)) \X (1..Len(menuItems)) :
        /\ p[1] <= Len(out.groups)
        /\ p[2] <= Len(out.groups[p[1]].cards)}

CardAt(p) == out.groups[p[1]].cards[p[2]]

(***************************************************************************)
(* C16: every rendered card has dimmed = vegetarianOnly and not (tags has  *)
(* Vegetarian or Vegan), nutWarning = nutAllergy and tags has 'Contains    *)
(* Nuts', porkWarning = noPork and tags has 'Contains Pork', unsafe =      *)
(* nutWarning or porkWarning, spicyHighlight = highlightSpicy and tags has *)
(* 'Spicy'; an unsafe card shows exactly one badge, the nut badge whenever *)
(* nutWarning holds; tags {Vegetarian, Spicy} under vegetarianOnly and     *)
(* highlightSpicy give dimmed false, unsafe false, spicyHighlight true.    *)
(***************************************************************************)
C16_FilterFlags ==
    (pc = "grid" /\ out.kind = "grid") =>
        \A p \in CardPlaces :
            LET card == CardAt(p)
                tags == card.dish.tags
                nut == activeFilters["nutAllergy"] /\ "Contains Nuts" \in tags
                pork == activeFilters["noPork"] /\ "Contains Pork" \in tags
            IN  /\ card.isDimmed <=>
                      (activeFilters["vegetarian"]
                          /\ ~("Vegetarian" \in tags \/ "Vegan" \in tags))
                /\ card.showNutWarning <=> nut
                /\ card.showPorkWarning <=> pork
                /\ card.isUnsafe <=> (nut \/ pork)
                /\ card.highlightSpicy <=> (activeFilters["spicy"] /\ "Spicy" \in tags)
                /\ card.isUnsafe => Len(card.badges) = 1
                /\ nut => card.badges = <<"CONTAINS NUTS">>
                /\ (pork /\ ~nut) => card.badges = <<"CONTAINS PORK">>
                /\ (/\ tags = {"Vegetarian", "Spicy"}
                    /\ activeFilters["vegetarian"]
                    /\ activeFilters["spicy"])
                      => ~card.isDimmed /\ ~card.isUnsafe /\ card.highlightSpicy

\* a card with nuts and pork drawn under both allergy filters
C16_Witness ==
    /\ pc = "grid"
    /\ out.kind = "grid"
    /\ activeFilters["nutAllergy"]
    /\ activeFilters["noPork"]
    /\ \E p \in CardPlaces :
          /\ CardAt(p).dish.tags = {"Contains Nuts", "Contains Pork"}
          /\ CardAt(p).badges = <<"CONTAINS NUTS">>

\* the first position of a dish of category label lab in the catalog
FirstAt(lab) ==
    CHOOSE k \in 1..Len(menuItems) :
        /\ CategoryOf(menuItems[k]) = lab
        /\ \A j \in 1..(k - 1) : CategoryOf(menuItems[j]) # lab

PositionOf(dish) == Find(menuItems, dish.originalName)

(***************************************************************************)
(* C19: the rendered groups hold every dish of the catalog exactly once,   *)
(* in the group of its category or of 'Other' when it has none; inside a   *)
(* group the dishes keep the catalog's order; and the groups come in the   *)
(* order in which their categories first occur in the catalog.             *)
(***************************************************************************)
C19_GroupsInFirstOccurrenceOrder ==
    (pc = "grid" /\ out.kind = "grid") =>
        /\ \A k \in 1..Len(menuItems) :
              /\ Cardinality({p \in CardPlaces : CardAt(p).dish = menuItems[k]}) = 1
              /\ \A p \in CardPlaces :
                    CardAt(p).dish = menuItems[k]
                        => out.groups[p[1]].category = CategoryOf(menuItems[k])
        /\ \A p, q \in CardPlaces :
              (p[1] = q[1] /\ p[2] < q[2])
                  => PositionOf(CardAt(p).dish) < PositionOf(CardAt(q).dish)
        /\ \A g, h \in 1..Len(out.groups) :
              g < h => FirstAt(out.groups[g].category) < FirstAt(out.groups[h].category)

(***************************************************************************)
(* C17: when the awaited menu-parse call rejects, or resolves with no      *)
(* items, handleFileSelect ends with appState UPLOAD and leaves the        *)
(* catalog, the restaurant identity and the ledger as they were: nothing   *)
(* is installed and MENU_VIEW is not entered, in both App implementations. *)
(***************************************************************************)
C17_FailedScanChangesNothing ==
    [][(/\ pc = "run"
        /\ parsePending' < parsePending
        /\ \/ last'.op = "scanFail"
           \/ last'.op = "scanOk" /\ menuItems' = <<>>)
          => /\ appState' = "UPLOAD"
             /\ menuItems' = menuItems
             /\ restaurantName' = restaurantName
             /\ restaurantLocation' = restaurantLocation
             /\ order' = order]_vars

(***************************************************************************)
(* SpecBatch: handleUpdateOrder called several times before the component  *)
(* renders again.  Each call hands setOrder an updater, kept here as the   *)
(* [name, delta] it closes over; the render runs the queued updaters.      *)
(***************************************************************************)
\* the deltas the + and - buttons pass
ButtonDeltas == {-1, 1}

RECURSIVE ProcessUpdateQueue(_, _, _)

\* updaters that all start from the ledger of the last render
ProcessUpdateQueue_staleState(i, base, queue) ==
    IF queue = <<>> THEN base
    ELSE handleUpdateOrder(i, base, queue[Len(queue)].name, queue[Len(queue)].delta)

\* the queued updaters run in the order of the calls, each on the value
\* the one before it returned
ProcessUpdateQueue(i, base, queue) ==
    IF queue = <<>> THEN base
    ELSE ProcessUpdateQueue(i,
            handleUpdateOrder(i, base, Head(queue).name, Head(queue).delta),
            Tail(queue))

InitBatch ==
    /\ impl \in Impls
    /\ pc = "batch"
    /\ appState = "MENU_VIEW"
    /\ menuItems = BillCatalog
    /\ restaurantName = ""
    /\ restaurantLocation = ""
    /\ order \in {EmptyMap, <<[name |-> TrackedId, qty |-> 1]>>}
    /\ isOrderModalOpen = FALSE
    /\ isEditRestaurantOpen = FALSE
    /\ slot = Absent
    /\ parsePending = 0
    /\ last = Other
    /\ hist = <<>>
    /\ call = NoCall
    /\ ModalInit
    /\ GridInit
    /\ pending = <<>>
    /\ AsyncInit
    /\ ChatInit

\* handleUpdateOrder(id, delta): setOrder(prev => ...) queues the updater
BatchCall ==
    /\ pc = "batch"
    /\ Len(pending) < MaxCalls
    /\ \E id \in Ids, delta \in ButtonDeltas :
          /\ Quantity(ProcessUpdateQueue(impl, order, pending), id) + delta <= MaxQty
          /\ pending' = Append(pending, [name |-> id, delta |-> delta])
    /\ last' = Other
    /\ hist' = <<>>
    /\ call' = NoCall
    /\ UNCHANGED <<recVars, detailVars, chatVars>>
    /\ UNCHANGED <<impl, pc, appState, menuItems, restaurantName, restaurantLocation,
                   order, isOrderModalOpen, isEditRestaurantOpen, slot, parsePending,
                   modalVars, gridVars>>

\* the render: the queued updaters give the next ledger, and the save
\* effect runs; hist and call.prev keep the calls and the ledger they met
BatchRender ==
    /\ pc = "batch"
    /\ pending # <<>>
    /\ LET new == [Cur EXCEPT !.order = ProcessUpdateQueue(impl, order, pending)]
       IN  /\ Install(new)
           /\ slot' = AfterRender(impl, Cur, new, TRUE, slot)
    /\ pending' = <<>>
    /\ hist' = pending
    /\ call' = [NoCall EXCEPT !.prev = order]
    /\ last' = [op |-> "render", flag |-> Len(pending) > 1]
    /\ UNCHANGED <<recVars, detailVars, chatVars>>
    /\ UNCHANGED <<impl, pc, isOrderModalOpen, isEditRestaurantOpen, parsePending,
                   modalVars, gridVars>>

NextBatch ==
    \/ BatchCall
    \/ BatchRender

SpecBatch == InitBatch /\ [][NextBatch]_vars

\* the ledger after the first n calls of the rendered batch
RECURSIVE AfterCalls(_)
AfterCalls(n) ==
    IF n = 0 THEN call.prev
    ELSE handleUpdateOrder(impl, AfterCalls(n - 1), hist[n].name, hist[n].delta)

(***************************************************************************)
(* C18: after a render, the ledger is the result of all the                *)
(* handleUpdateOrder calls made since the last render, each applied to     *)
(* the result of the one before; n calls with delta +1 for one identity    *)
(* that stood at quantity q leave it at q + n.                             *)
(***************************************************************************)
C18_NoLostUpdates ==
    (pc = "batch" /\ last.op = "render") =>
        /\ order = AfterCalls(Len(hist))
        /\ \A id \in Ids :
              (\A k \in 1..Len(hist) : hist[k] = [name |-> id, delta |-> 1])
                  => Stored(order, id) = Stored(call.prev, id) + Len(hist)

\* a render after two or more +1 calls for the tracked dish
C18_Witness ==
    /\ pc = "batch"
    /\ last.op = "render"
    /\ last.flag
    /\ \A k \in 1..Len(hist) : hist[k] = [name |-> TrackedId, delta |-> 1]
    /\ Stored(order, TrackedId) = Stored(call.prev, TrackedId) + Len(hist)

(***************************************************************************)
(* SpecPrice: the price totals of App and OrderModal over catalogs whose   *)
(* first dish has every price string of up to MaxPriceLen characters, and  *)
(* ledgers that also hold a dish the catalog lacks.                        *)
(***************************************************************************)
MaxPriceLen == 3

PriceChars == {"0", "5", ".", "$", "E"}

\* the strings of up to MaxPriceLen characters; the empty one is a missing price
PriceStrings ==
    UNION {[1..n -> PriceChars] : n \in 0..MaxPriceLen}

PriceCatalogs ==
    {<<[originalName |-> "a", price |-> p], [originalName |-> "b", price |-> <<"5">>]>> :
        p \in PriceStrings}

OrphanId == "c"

\* price.replace(/\d|\.| /g, '')
stripPrice(price) ==
    LET kept(c) == c \notin DigitChars \cup {".", " "}
    IN  SelectSeq(price, kept)

\* App: menuItems.find(m => m.price)?.price?.replace(...) || '$'
currencySymbolApp(items) ==
    LET priced(m) == m.price # <<>>
        found == SelectSeq(items, priced)
        sym == IF found = <<>> THEN <<>> ELSE stripPrice(found[1].price)
    IN  IF sym = <<>> THEN <<"$">> ELSE sym

\* OrderModal: cartItems[0]?.item?.price?.replace(...) || '$'
currencySymbolModal(cart) ==
    LET sym == IF cart = <<>> THEN <<>> ELSE stripPrice(cart[1].item.price)
    IN  IF sym = <<>> THEN <<"$">> ELSE sym

\* what the floating bar of App and the summary of OrderModal show
RenderTotals(m, items) ==
    [kind |-> "totals",
     totalPrice |-> totalPrice(m, items),
     cartTotal |-> cartTotal(cartItems(m, items)),
     barSymbol |-> currencySymbolApp(items),
     modalSymbol |-> currencySymbolModal(cartItems(m, items))]

InitPrice ==
    /\ impl = "full"
    /\ pc = "price"
    /\ appState = "MENU_VIEW"
    /\ menuItems \in PriceCatalogs
    /\ restaurantName = ""
    /\ restaurantLocation = ""
    /\ order \in {EmptyMap, <<[name |-> OrphanId, qty |-> 1]>>}
    /\ isOrderModalOpen = FALSE
    /\ isEditRestaurantOpen = FALSE
    /\ slot = Absent
    /\ parsePending = 0
    /\ last = Other
    /\ hist = <<>>
    /\ call = NoCall
    /\ ModalInit
    /\ activeFilters = [k \in FilterKeys |-> FALSE]
    /\ out = RenderTotals(order, menuItems)
    /\ pending = <<>>
    /\ AsyncInit
    /\ ChatInit

\* a quantity button of the grid, the render and its save effect
PriceAdjust ==
    /\ pc = "price"
    /\ \E k \in 1..Len(menuItems), delta \in ButtonDeltas :
          LET id == menuItems[k].originalName
              new == [Cur EXCEPT !.order = handleUpdateOrder(impl, order, id, delta)]
          IN  /\ delta = -1 => Quantity(order, id) > 0
              /\ Quantity(order, id) + delta <= MaxQty
              /\ Install(new)
              /\ slot' = AfterRender(impl, Cur, new, TRUE, slot)
              /\ out' = RenderTotals(new.order, menuItems)
    /\ last' = [op |-> "adjust", flag |-> FALSE]
    /\ UNCHANGED <<recVars, detailVars, chatVars>>
    /\ UNCHANGED <<impl, pc, isOrderModalOpen, isEditRestaurantOpen, parsePending,
                   hist, call, modalVars, activeFilters, pending>>

NextPrice == PriceAdjust

SpecPrice == InitPrice /\ [][NextPrice]_vars

RECURSIVE Pow10(_)
Pow10(n) == IF n = 0 THEN 1 ELSE 10 * Pow10(n - 1)

\* the value, in hundredths, of a run of digits with at most one point and
\* at most two digits after it
RECURSIVE RunCentsFrom(_, _, _)
RunCentsFrom(run, dot, k) ==
    IF k > Len(run) THEN 0
    ELSE (IF k < dot THEN DigitVal(run[k]) * Pow10(dot - 1 - k) * 100
          ELSE IF k > dot /\ k - dot <= 2 THEN DigitVal(run[k]) * Pow10(2 - (k - dot))
          ELSE 0)
         + RunCentsFrom(run, dot, k + 1)

\* the first contiguous run of digits with at most one decimal point: it
\* starts at the first digit of s and is the longest stretch of digits and
\* points from there that has no second point
FirstRun(s) ==
    LET i == CHOOSE k \in 1..Len(s) :
                 s[k] \in DigitChars /\ \A j \in 1..(k - 1) : s[j] \notin DigitChars
        ok(j) == /\ \A k \in i..j : s[k] \in DigitChars \cup {"."}
                 /\ Cardinality({k \in i..j : s[k] = "."}) <= 1
        j == CHOOSE e \in i..Len(s) : ok(e) /\ \A f \in (e + 1)..Len(s) : ~ok(f)
    IN  SubSeq(s, i, j)

\* parsed(price) of the claim, in hundredths
Parsed(s) ==
    IF \A k \in 1..Len(s) : s[k] \notin DigitChars THEN 0
    ELSE LET run == FirstRun(s)
             dot == IF \E k \in 1..Len(run) : run[k] = "."
                    THEN CHOOSE k \in 1..Len(run) : run[k] = "."
                    ELSE Len(run) + 1
         IN  RunCentsFrom(run, dot, 1)

\* the sum of parsed(price) * quantity over the ledger entries at the
\* positions S whose dish is in the catalog and has a price
RECURSIVE PricedSum(_)
PricedSum(S) ==
    IF S = {} THEN 0
    ELSE LET k == CHOOSE x \in S : TRUE
             at == Find(menuItems, order[k].name)
         IN  (IF at # 0 /\ menuItems[at].price # <<>>
              THEN Parsed(menuItems[at].price) * order[k].qty
              ELSE 0)
             + PricedSum(S \ {k})

(***************************************************************************)
(* C20: the price total shown by App and the cart total of OrderModal are  *)
(* the sum, over the ledger entries whose dish is in the catalog and has a *)
(* price, of parsed(price) * quantity, where parsed(price) is the value of *)
(* the first contiguous run of digits with at most one decimal point and 0 *)
(* for a string without a digit; other entries contribute 0.               *)
(***************************************************************************)
C20_TotalIsSumOfParsedPrices ==
    (pc = "price" /\ out.kind = "totals") =>
        /\ out.totalPrice = PricedSum(1..Len(order))
        /\ out.cartTotal = PricedSum(1..Len(order))

\* two of a dish priced 0.5, one priced 5 and one dish the catalog lacks
C20_Witness ==
    /\ pc = "price"
    /\ out.kind = "totals"
    /\ menuItems[1].price = <<"0", ".", "5">>
    /\ Stored(order, "a") = 2
    /\ Stored(order, "b") = 1
    /\ Stored(order, OrphanId) = 1
    /\ out.totalPrice = 600

(***************************************************************************)
(* C27: whenever the catalog is empty the ledger is empty and totalItems   *)
(* is 0, in both App implementations.                                      *)
(***************************************************************************)
C27_EmptyCatalogEmptyLedger ==
    menuItems = <<>> => (order = EmptyMap /\ totalItems(order) = 0)

(***************************************************************************)
(* C28: a menu-parse call that was in flight when the reset happened does  *)
(* not install a catalog or cause a write of the slot: when such a call    *)
(* settles before any new scan was started, the catalog is still empty and *)
(* the slot still absent.                                                  *)
(***************************************************************************)
C28_StaleScanInstallsNothing ==
    [][(pc = "run" /\ last.op = "reset" /\ parsePending' < parsePending)
          => (menuItems' = <<>> /\ slot' = Absent)]_vars

(***************************************************************************)
(* App's other awaited calls: the dish detail lookup (handleDishClick) and  *)
(* the recommendation request are in flight while the user goes on; each   *)
(* is a start action, up to the await, and a settle action, from the await *)
(* on.  SpecAsync is App with scans and recommendation requests in flight; *)
(* SpecDetail, further down, is App with lookups in flight.                *)
(***************************************************************************)
MaxLookups == 2
MaxRecs == 1

\* what getRecommendations resolves to: dish names, or a rejection
RecOutcomes ==
    {[kind |-> "reject", recs |-> <<>>], [kind |-> "ok", recs |-> <<TrackedId>>]}

Detail(name) == [kind |-> "detail", dish |-> name]

\* a lookup handler that also empties the ledger
handleDishClickApp_clearsOrder(st) == [st EXCEPT !.order = EmptyMap]

\* the catalog, identity, ledger and appState after handleDishClick: it
\* calls none of their setters
handleDishClickApp(st) == st

\* handleDishClick up to its await; src/App.tsx keeps the old detail.  hist
\* is the lookups requested so far, detailPending the ones still awaited
DishClick ==
    /\ pc = "run"
    /\ ~isModalOpen
    /\ Len(hist) < MaxLookups
    /\ \E name \in Ids :
          /\ \/ /\ appState = "MENU_VIEW"
                /\ Find(menuItems, name) # 0
             \/ /\ impl = "full"
                /\ appState = "RECOMMENDATION_VIEW"
                /\ \E k \in 1..Len(recommendations) : recommendations[k] = name
          /\ hist' = Append(hist, [dish |-> name, res |-> "flight"])
    /\ detailPending' = Append(detailPending, Len(hist) + 1)
    /\ isModalOpen' = TRUE
    /\ isDetailLoading' = TRUE
    /\ currentDishDetail' = IF impl = "full" THEN NoDetail ELSE currentDishDetail
    /\ Install(handleDishClickApp(Cur))
    /\ last' = [op |-> "dishClick", flag |-> Len(detailPending) > 0]
    /\ UNCHANGED <<impl, pc, isOrderModalOpen, isEditRestaurantOpen, slot, parsePending,
                   call, modalVars, gridVars, pending, recVars, chatVars>>

\* an awaited searchDishInfo call settles, in any order; flag: the step
\* before it was a ledger adjust, made while the call was in flight
DishSettle ==
    /\ pc = "run"
    /\ \E k \in 1..Len(detailPending), ok \in BOOLEAN :
          LET n == detailPending[k]
          IN  /\ detailPending' = SubSeq(detailPending, 1, k - 1)
                                     \o SubSeq(detailPending, k + 1, Len(detailPending))
              /\ currentDishDetail' = IF ok THEN Detail(hist[n].dish)
                                      ELSE currentDishDetail
              /\ hist' = [hist EXCEPT ![n].res = IF ok THEN "ok" ELSE "fail"]
              /\ last' = [op |-> IF ok THEN "dishOk" ELSE "dishFail",
                          flag |-> last.op = "adjust"]
    /\ isDetailLoading' = FALSE
    /\ Install(handleDishClickApp(Cur))
    /\ UNCHANGED <<impl, pc, isOrderModalOpen, isEditRestaurantOpen, slot, parsePending,
                   call, modalVars, gridVars, pending, recVars, chatVars,
                   isModalOpen>>

\* DishDetailModal onClose
CloseDetail ==
    /\ pc = "run"
    /\ isModalOpen
    /\ isModalOpen' = FALSE
    /\ last' = Other
    /\ UNCHANGED <<impl, pc, appState, menuItems, restaurantName, restaurantLocation,
                   order, isOrderModalOpen, isEditRestaurantOpen, slot, parsePending,
                   hist, call, modalVars, gridVars, pending, recVars, chatVars,
                   isDetailLoading, currentDishDetail, detailPending>>

\* PreferenceForm's submit, disabled while loading: the handler up to its await
RecsSubmit ==
    /\ pc = "run"
    /\ appState = "RECOMMENDATION_VIEW"
    /\ recommendations = <<>>
    /\ ~loading
    /\ recsPending < MaxRecs
    /\ loading' = TRUE
    /\ recsPending' = recsPending + 1
    /\ last' = [op |-> "recsSubmit", flag |-> FALSE]
    /\ UNCHANGED <<impl, pc, appState, menuItems, restaurantName, restaurantLocation,
                   order, isOrderModalOpen, isEditRestaurantOpen, slot, parsePending,
                   hist, call, modalVars, gridVars, pending, chatVars, detailVars,
                   recommendations>>

\* the appState after handleGetRecommendations of src/src/App.tsx succeeded
recsAppState(i, cur) == IF i = "full" THEN "RECOMMENDATION_VIEW" ELSE cur

\* the loading flag after the awaited getRecommendations call settled:
\* src/src/App.tsx clears it in finally, the onSubmit of src/App.tsx only
\* after the await returned
recsLoading(i, ok, cur) == IF i = "full" \/ ok THEN FALSE ELSE cur

\* an awaited getRecommendations call settles, and the save effect runs
RecsSettle ==
    /\ pc = "run"
    /\ recsPending > 0
    /\ recsPending' = recsPending - 1
    /\ \E result \in RecOutcomes :
          LET ok == result.kind = "ok"
              new == [Cur EXCEPT !.appState = IF ok THEN recsAppState(impl, appState)
                                              ELSE appState]
          IN  /\ recommendations' = IF ok THEN result.recs ELSE recommendations
              /\ loading' = recsLoading(impl, ok, loading)
              /\ Install(new)
              /\ slot' = AfterRender(impl, Cur, new, FALSE, slot)
              /\ last' = [op |-> IF ok THEN "recsOk" ELSE "recsFail", flag |-> FALSE]
    /\ UNCHANGED <<impl, pc, isOrderModalOpen, isEditRestaurantOpen, parsePending,
                   hist, call, modalVars, gridVars, pending, chatVars, detailVars>>

NextAsync ==
    \/ Mount
    \/ StartScan
    \/ ScanResolve
    \/ AdjustFromGrid
    \/ Reset
    \/ OpenEdit
    \/ SaveEdit
    \/ Navigate
    \/ RecsSubmit
    \/ RecsSettle

SpecAsync == Init /\ [][NextAsync]_vars

(***************************************************************************)
(* SpecDetail: App in MENU_VIEW over BillCatalog, with recommendations     *)
(* received earlier; dishes are looked up from the grid and from the       *)
(* recommendation list while the ledger is adjusted and the view switched. *)
(***************************************************************************)
InitDetail ==
    /\ impl \in Impls
    /\ pc = "run"
    /\ appState = "MENU_VIEW"
    /\ menuItems = BillCatalog
    /\ restaurantName = ""
    /\ restaurantLocation = ""
    /\ order = EmptyMap
    /\ isOrderModalOpen = FALSE
    /\ isEditRestaurantOpen = FALSE
    /\ parsePending = 0
    /\ last = Other
    /\ hist = <<>>
    /\ call = NoCall
    /\ ModalInit
    /\ GridInit
    /\ pending = <<>>
    /\ loading = FALSE
    /\ recommendations = <<TrackedId>>
    /\ recsPending = 0
    /\ isModalOpen = FALSE
    /\ isDetailLoading = FALSE
    /\ currentDishDetail = NoDetail
    /\ detailPending = <<>>
    /\ ChatInit
    /\ slot = SaveEffect(impl, Cur, Absent)

NextDetail ==
    \/ AdjustFromGrid
    \/ Navigate
    \/ DishClick
    \/ DishSettle
    \/ CloseDetail

SpecDetail == InitDetail /\ [][NextDetail]_vars

(***************************************************************************)
(* C22: a dish-detail lookup, whether it succeeds or fails, changes only   *)
(* the detail-view state: the step that starts it and the step that        *)
(* settles it leave the catalog, the ledger, the restaurant identity,      *)
(* appState and the slot as they were, so an adjust made while it was in   *)
(* flight is still in effect after it.                                     *)
(***************************************************************************)
C22_LookupChangesOnlyDetailState ==
    [][hist' # hist => (Cur' = Cur /\ slot' = slot /\ recVars' = recVars)]_vars

\* a lookup failed right after an adjust made while it was in flight, the
\* modal having been closed meanwhile
C22_Witness ==
    /\ last.op = "dishFail"
    /\ last.flag
    /\ ~isModalOpen
    /\ Stored(order, "a") = 1
    /\ impl = "full"

(***************************************************************************)
(* C29: once every lookup requested has completed successfully the detail  *)
(* shown is that of the most recent request, and the detail loading flag   *)
(* is true for as long as any lookup is in flight.                         *)
(***************************************************************************)
C29_LatestLookupWins ==
    /\ detailPending # <<>> => isDetailLoading
    /\ (/\ Len(hist) >= 2
        /\ \A n \in 1..Len(hist) : hist[n].res = "ok")
          => currentDishDetail = Detail(hist[Len(hist)].dish)

(***************************************************************************)
(* C24: after a failed recommendation call the loading flag is false       *)
(* again, and the recommendations list, the catalog and the ledger are as  *)
(* they were, in both App implementations.                                 *)
(***************************************************************************)
C24_FailedRecsLeaveFormReady ==
    [][(recsPending' < recsPending /\ last'.op = "recsFail")
          => /\ loading' = FALSE
             /\ recommendations' = recommendations
             /\ menuItems' = menuItems
             /\ order' = order]_vars

(***************************************************************************)
(* C25: the catalog is only replaced wholesale: a step that changes        *)
(* menuItems is a successful scan, the startup hydration or the reset;     *)
(* adjusts, identity edits, view switches and recommendation requests      *)
(* leave it unchanged.                                                     *)
(***************************************************************************)
C25_CatalogReplacedWholesale ==
    [][menuItems' # menuItems
          => last'.op \in {"scanOk", "mount", "mountThrew", "reset"}]_vars

\* the identity was edited over a catalog with a ledger, after
\* recommendations had been received
C25_Witness ==
    /\ pc = "run"
    /\ last.op = "other"
    /\ restaurantName # ""
    /\ recommendations # <<>>
    /\ menuItems # <<>>
    /\ Len(order) > 0
    /\ ~isEditRestaurantOpen

(***************************************************************************)
(* C26: in every reachable state, appState being MENU_VIEW or              *)
(* RECOMMENDATION_VIEW implies that the catalog is non-empty.              *)
(***************************************************************************)
C26_ViewsHaveCatalog ==
    appState \in {"MENU_VIEW", "RECOMMENDATION_VIEW"} => menuItems # <<>>

(***************************************************************************)
(* C21: the floating order bar and the order summary show the same         *)
(* currency symbol, the one of the first dish of the catalog that has a    *)
(* price, for every catalog and every ledger with a cart to show.          *)
(***************************************************************************)
C21_SameCurrencySymbol ==
    (pc = "price" /\ cartItems(order, menuItems) # <<>>)
        => /\ out.barSymbol = out.modalSymbol
           /\ out.modalSymbol = currencySymbolApp(menuItems)

(***************************************************************************)
(* WaiterChat.  handleSend is a start action, up to its await, and a       *)
(* settle action, from the await on; chatPending holds the turns awaited,  *)
(* each with the session it was sent to.                                   *)
(***************************************************************************)
MaxTurns == 2

\* what the user can have in the input field
ChatInputs == {<<>>, <<" ">>, <<"h">>, <<"h", " ">>}

\* String.prototype.trim
RECURSIVE Trim(_)
Trim(s) ==
    IF s = <<>> THEN <<>>
    ELSE IF Head(s) = " " THEN Trim(Tail(s))
    ELSE IF s[Len(s)] = " " THEN Trim(SubSeq(s, 1, Len(s) - 1))
    ELSE s

\* the text of the catch block of each WaiterChat
ErrorMessage(i) ==
    [role |-> "model",
     text |-> IF i = "full" THEN <<"Sorry, I'm having trouble connecting to the kitchen right now.">>
              ELSE <<"Error connecting to AI.">>]

ReplyMessage == [role |-> "model", text |-> <<"reply">>]

UserTurns(msgs) == Cardinality({k \in 1..Len(msgs) : msgs[k].role = "user"})

\* a catch block that starts the transcript over
afterSendFailed_startsOver(i, msgs) == <<Greeting, ErrorMessage(i)>>

\* the transcript after handleSend's catch block
afterSendFailed(i, msgs) == Append(msgs, ErrorMessage(i))

\* handleSend up to its await
handleSend ==
    /\ Trim(inputText) # <<>>
    /\ chatSession # 0
    /\ UserTurns(messages) < MaxTurns
    /\ messages' = Append(messages, [role |-> "user", text |-> Trim(inputText)])
    /\ inputText' = <<>>
    /\ isTyping' = TRUE
    /\ chatPending' = Append(chatPending, [session |-> chatSession, text |-> Trim(inputText)])
    /\ last' = [op |-> "send", flag |-> isTyping]
    /\ UNCHANGED <<impl, pc, appState, menuItems, restaurantName, restaurantLocation,
                   order, isOrderModalOpen, isEditRestaurantOpen, slot, parsePending,
                   hist, call, modalVars, gridVars, pending, recVars, detailVars,
                   chatSession>>

\* the input's onChange; the field is never disabled
TypeInput ==
    /\ pc = "run"
    /\ \E text \in ChatInputs \ {inputText} : inputText' = text
    /\ last' = Other
    /\ UNCHANGED <<impl, pc, appState, menuItems, restaurantName, restaurantLocation,
                   order, isOrderModalOpen, isEditRestaurantOpen, slot, parsePending,
                   hist, call, modalVars, gridVars, pending, recVars, detailVars,
                   messages, isTyping, chatSession, chatPending>>

\* the send button: disabled={!inputText.trim() || isTyping} in
\* src/unnamed/part_003, never disabled in src/components/WaiterChat.tsx
SendClick ==
    /\ pc = "run"
    /\ impl = "full" => (Trim(inputText) # <<>> /\ ~isTyping)
    /\ handleSend

\* handleKeyPress: Enter in the input field
SendEnter ==
    /\ pc = "run"
    /\ handleSend

\* an awaited sendMessage call settles; flag: the session it was sent to is
\* the one the component holds
ChatSettle ==
    /\ pc = "run"
    /\ \E k \in 1..Len(chatPending), ok \in BOOLEAN :
          /\ chatPending' = SubSeq(chatPending, 1, k - 1)
                               \o SubSeq(chatPending, k + 1, Len(chatPending))
          /\ messages' = IF ok THEN Append(messages, ReplyMessage)
                         ELSE afterSendFailed(impl, messages)
          /\ last' = [op |-> IF ok THEN "chatOk" ELSE "chatFail",
                      flag |-> chatPending[k].session = chatSession]
    /\ isTyping' = FALSE
    /\ UNCHANGED <<impl, pc, appState, menuItems, restaurantName, restaurantLocation,
                   order, isOrderModalOpen, isEditRestaurantOpen, slot, parsePending,
                   hist, call, modalVars, gridVars, pending, recVars, detailVars,
                   inputText, chatSession>>

(***************************************************************************)
(* SpecChat: App in MENU_VIEW over a one-dish catalog with WaiterChat      *)
(* mounted, its effect having created the session; the user types, sends   *)
(* by button and by Enter, and adjusts the ledger while turns are awaited. *)
(***************************************************************************)
InitChat ==
    /\ impl \in Impls
    /\ pc = "run"
    /\ appState = "MENU_VIEW"
    /\ menuItems = <<DishA>>
    /\ restaurantName = ""
    /\ restaurantLocation = ""
    /\ order = EmptyMap
    /\ isOrderModalOpen = FALSE
    /\ isEditRestaurantOpen = FALSE
    /\ parsePending = 0
    /\ last = Other
    /\ hist = <<>>
    /\ call = NoCall
    /\ ModalInit
    /\ GridInit
    /\ pending = <<>>
    /\ AsyncInit
    /\ messages = <<Greeting>>
    /\ inputText = <<>>
    /\ isTyping = FALSE
    /\ chatSession = 1
    /\ chatPending = <<>>
    /\ slot = SaveEffect(impl, Cur, Absent)

NextChat ==
    \/ TypeInput
    \/ SendClick
    \/ SendEnter
    \/ ChatSettle
    \/ AdjustFromGrid

SpecChat == InitChat /\ [][NextChat]_vars

(***************************************************************************)
(* C23: a failed chat turn appends exactly one error message to the        *)
(* conversation, after the user's message, keeps the session, clears the   *)
(* typing flag and leaves the catalog, ledger, identity, appState and slot *)
(* unchanged.                                                              *)
(***************************************************************************)
C23_FailedTurnIsLocal ==
    [][(chatPending' # chatPending /\ last'.op = "chatFail")
          => /\ messages' = Append(messages, ErrorMessage(impl))
             /\ \E k \in 1..Len(messages) : messages[k].role = "user"
             /\ chatSession' = chatSession
             /\ chatSession # 0
             /\ isTyping' = FALSE
             /\ Cur' = Cur
             /\ slot' = slot]_vars

\* a turn failed, and the next turn, sent to the same session, succeeded,
\* with the ledger adjusted meanwhile
C23_Witness ==
    /\ Len(messages) = 5
    /\ messages[2].role = "user"
    /\ messages[3] = ErrorMessage(impl)
    /\ messages[4].role = "user"
    /\ messages[5] = ReplyMessage
    /\ last.op = "chatOk"
    /\ last.flag
    /\ ~isTyping
    /\ chatSession = 1
    /\ Stored(order, "a") = 1

(***************************************************************************)
(* C30: at most one chat turn is in flight at any time, so in the          *)
(* transcript after the greeting every user message is directly followed   *)
(* by the model or error message that answers it.                          *)
(***************************************************************************)
C30_OneTurnInFlight ==
    /\ Len(chatPending) <= 1
    /\ \A k \in 2..(Len(messages) - 1) :
          messages[k].role = "user" => messages[k + 1].role = "model"

====================================================================
